---- MODULE Spec2Model ----
(***************************************************************************)
(* A model of the schema engine documented by this repository: the schema  *)
(* node and its test registry (docs/Api/schema.md), the validation driver  *)
(* with its two abort modes, and the error paths (docs/error.md).          *)
(*                                                                         *)
(* The specifications that share the module:                               *)
(*   SpecBuild      schema construction: configuration calls on a heap of  *)
(*                  schema nodes, inside and outside withMutation;         *)
(*   Spec           one validate / validateSync / isValid call on a schema *)
(*                  tree, with asynchronous tests settling in any order;   *)
(*   SpecCast       one cast of an object schema whose fields hold         *)
(*                  references;                                            *)
(*   SpecDefault    the defaults of a schema handed out and changed by the *)
(*                  caller;                                                *)
(*   SpecPipe       one cast step by step: transforms, default, children,  *)
(*                  and the cast of its result;                            *)
(*   SpecSets       oneOf and notOneOf calls chained on a schema;          *)
(*   SpecReentrant  validate and cast calls in progress on one schema.     *)
(***************************************************************************)
EXTENDS FiniteSets, Integers, Sequences, TLC

(***************************************************************************)
(* Bounds of the model.                                                    *)
(***************************************************************************)
\* configuration calls made in one behaviour of SpecBuild
MaxCalls == 3
\* elements of an array that is validated
MaxElements == 2
\* the values a caller comes to hold
MaxHeld == 2
\* the calls made on one schema while others are in progress
MaxFlights == 2

(***************************************************************************)
(* Values: generic structured data, tagged with their JavaScript type.     *)
(***************************************************************************)
Undefined == [t |-> "undefined"]
Null == [t |-> "null"]
Num(n) == [t |-> "number", v |-> n]
Str(s) == [t |-> "string", v |-> s]
Arr(s) == [t |-> "array", v |-> s]
Obj(f) == [t |-> "object", v |-> f]
Bool(b) == [t |-> "boolean", v |-> b]

\* the elements of a sequence, as a set
Range(s) == {s[i] : i \in DOMAIN s}

(***************************************************************************)
(* Tests.  A test descriptor is the options object of Schema.test(options):*)
(* name, exclusive, the test function (kind and param) and whether the     *)
(* function returns a promise (async).  uid tells two descriptors with the *)
(* same options apart.                                                     *)
(***************************************************************************)
MkTest(name, exclusive, kind, param, async, uid) ==
    [name |-> name, exclusive |-> exclusive, kind |-> kind, param |-> param,
     async |-> async, uid |-> uid]

\* what the test function of t answers on value v; the documented built-in
\* and example tests return true for absent values
TestPasses(t, v) ==
    CASE t.kind = "min" -> (v.t = "number" => v.v >= t.param)
      [] t.kind = "max" -> (v.t = "number" => v.v <= t.param)
      [] t.kind = "neq" -> v # Num(t.param)
      [] t.kind = "fail" -> FALSE
      [] OTHER -> TRUE

(***************************************************************************)
(* The test registry: Schema.test(options).                                *)
(***************************************************************************)
\* a mutant of AddTest: the new test is stacked whatever its exclusivity
AddTestKeepAll(tests, opts) == Append(tests, opts)

\* a mutant of AddTest: the new test goes in front of the registry
AddTestInFront(tests, opts) ==
    LET keep(t) == t.name # opts.name \/ (~opts.exclusive /\ ~t.exclusive)
    IN  <<opts>> \o SelectSeq(tests, keep)

\* a mutant of AddTest: an exclusive test survives a non-exclusive addition
AddTestKeepExclusive(tests, opts) ==
    LET keep(t) == t.name # opts.name \/ ~opts.exclusive
    IN  Append(SelectSeq(tests, keep), opts)

\* a mutant of AddTest: an exclusive test replaces the whole registry
AddTestExclusiveAlone(tests, opts) ==
    LET keep(t) == ~opts.exclusive /\ (t.name # opts.name \/ ~t.exclusive)
    IN  Append(SelectSeq(tests, keep), opts)

\* the registry after adding opts: an exclusive test replaces every test of
\* its name, a non-exclusive test removes the exclusive test of its name and
\* is stacked after the non-exclusive ones
AddTest(tests, opts) ==
    LET keep(t) == t.name # opts.name \/ (~opts.exclusive /\ ~t.exclusive)
    IN  Append(SelectSeq(tests, keep), opts)

\* the tests named n of a registry, in registry order
Named(tests, n) ==
    LET is(t) == t.name = n
    IN  SelectSeq(tests, is)

(***************************************************************************)
(* Schema nodes.                                                           *)
(***************************************************************************)
\* the transforms a type is constructed with: number parses, string formats,
\* the other types have no default casting behaviour
BuiltInTransforms(type) ==
    CASE type = "number" -> <<"parseFloat">>
      [] type = "string" -> <<"toString">>
      [] OTHER -> <<>>

\* a freshly constructed node of the given type: no tests, the built-in
\* transforms, no conditions, not nullable, optional, no default set
Schema(type) ==
    [type |-> type, tests |-> <<>>, transforms |-> BuiltInTransforms(type),
     conditions |-> <<>>, nullable |-> FALSE, optional |-> TRUE,
     default |-> Undefined, defaultSet |-> FALSE, fields |-> <<>>,
     noSortEdges |-> {}, innerType |-> <<>>, oneOf |-> {}, notOneOf |-> {}]

\* the configuration calls, each giving the node that results
test(s, opts) == [s EXCEPT !.tests = AddTest(@, opts)]
required(s) == [s EXCEPT !.optional = FALSE, !.nullable = FALSE]
defined(s) == [s EXCEPT !.optional = FALSE]
optional(s) == [s EXCEPT !.optional = TRUE]
nullable(s) == [s EXCEPT !.nullable = TRUE]
nonNullable(s) == [s EXCEPT !.nullable = FALSE]
transform(s, fn) == [s EXCEPT !.transforms = Append(@, fn)]
default(s, value) == [s EXCEPT !.default = value, !.defaultSet = TRUE]

\* a mutant of oneOf: the values stay in the notOneOf set
oneOfKeepsExcluded(s, values) == [s EXCEPT !.oneOf = @ \cup values]

\* oneOf and notOneOf: the values are added to the one set and removed from
\* the other
oneOf(s, values) ==
    [s EXCEPT !.oneOf = @ \cup values, !.notOneOf = @ \ values]
notOneOf(s, values) ==
    [s EXCEPT !.notOneOf = @ \cup values, !.oneOf = @ \ values]

\* a default given as a function that returns the value
Producer(value) == [t |-> "producer", v |-> value]
when(s, keys, builder) ==
    [s EXCEPT !.conditions = Append(@, [keys |-> keys, builder |-> builder])]

\* a builder of when: {is, then, otherwise}, then and otherwise each a change
\* made to the schema the builder is given
Change(op, n) == [op |-> op, n |-> n]
Same == Change("same", 0)
Builder(is, then, otherwise) == [is |-> is, then |-> then, otherwise |-> otherwise]

\* schema.min(n), schema.max(n): exclusive tests by those names
min(s, n) == test(s, MkTest("min", TRUE, "min", n, FALSE, 0))
max(s, n) == test(s, MkTest("max", TRUE, "max", n, FALSE, 0))

\* the schema a change makes of the schema s
Apply(change, s) ==
    CASE change.op = "min" -> min(s, change.n)
      [] change.op = "max" -> max(s, change.n)
      [] change.op = "required" -> required(s)
      [] change.op = "transform" -> transform(s, change.n)
      [] OTHER -> s

\* container constructors: object(fields) takes the fields in declaration
\* order, each [key, schema]; array().of(type) takes the element schema
Field(key, s) == [key |-> key, schema |-> s]
object(fields) == [Schema("object") EXCEPT !.fields = fields]
arrayOf(s) == [Schema("array") EXCEPT !.innerType = <<s>>]

(***************************************************************************)
(* Cast: the transform pipeline, the default, and the recursion into       *)
(* containers.                                                             *)
(***************************************************************************)
NaN == [t |-> "NaN"]

\* the numerals the model knows
Numerals == -30 .. 30

\* parseFloat on a string: the number it spells, or NaN
ParseFloat(str) ==
    IF \E n \in Numerals : ToString(n) = str
    THEN Num(CHOOSE n \in Numerals : ToString(n) = str)
    ELSE NaN

\* a string read backwards, for the strings the model knows
Reverse(str) ==
    CASE str = "dlrow olleh" -> "hello world"
      [] str = "hello world" -> "dlrow olleh"
      [] str = "12" -> "21"
      [] str = "21" -> "12"
      [] str = "nothing" -> "gnihton"
      [] str = "gnihton" -> "nothing"
      [] OTHER -> str

\* a mutant of Ensure: an array is wrapped like any other value
EnsureWrapsArrays(cur) ==
    CASE cur.t \in {"undefined", "null"} -> Arr(<<>>)
      [] OTHER -> Arr(<<cur>>)

\* the transform of array().ensure(): undefined and null become [], an
\* array stays, any other value is wrapped in an array
Ensure(cur) ==
    CASE cur.t \in {"undefined", "null"} -> Arr(<<>>)
      [] cur.t = "array" -> cur
      [] OTHER -> Arr(<<cur>>)

\* one transform applied to the current value cur of a cast of orig: the
\* built-in ones of the types, and the custom ones
\*   reverse   (value) => value.split('').reverse().join('')
\*   original  (value, originalValue) => originalValue
\*   blank     (value) => value === '' ? undefined : value
ApplyTransform(fn, cur, orig) ==
    CASE fn = "parseFloat" ->
           (CASE cur.t = "string" -> ParseFloat(cur.v)
              [] cur.t \in {"number", "undefined", "null"} -> cur
              [] OTHER -> NaN)
      [] fn = "toString" ->
           (CASE cur.t = "number" -> Str(ToString(cur.v))
              [] OTHER -> cur)
      [] fn = "ensure" -> Ensure(cur)
      [] fn = "original" -> orig
      [] fn = "reverse" ->
           (CASE cur.t = "string" -> Str(Reverse(cur.v))
              [] OTHER -> cur)
      [] fn = "blank" -> IF cur = Str("") THEN Undefined ELSE cur
      [] OTHER -> cur

\* a mutant of RunTransforms: every transform is given the input of the cast
RECURSIVE RunTransformsOnInput(_, _, _)
RunTransformsOnInput(fns, cur, orig) ==
    IF fns = <<>> THEN cur
    ELSE RunTransformsOnInput(Tail(fns), ApplyTransform(Head(fns), orig, orig), orig)

\* the transforms of a node run one after another on v
RECURSIVE RunTransforms(_, _, _)
RunTransforms(fns, cur, orig) ==
    IF fns = <<>> THEN cur
    ELSE RunTransforms(Tail(fns), ApplyTransform(Head(fns), cur, orig), orig)

\* s.getDefault(): the default that was set; an object schema with no
\* default set builds its shape out of the defaults of its fields (a
\* reference has none); a producer is called for the value
RECURSIVE getDefault(_)
getDefault(s) ==
    IF s.type = "ref" THEN Undefined
    ELSE IF s.type = "object" /\ ~s.defaultSet
    THEN LET has == {i \in DOMAIN s.fields :
                       getDefault(s.fields[i].schema) # Undefined}
             at(k) == CHOOSE i \in has : s.fields[i].key = k
         IN  Obj([k \in {s.fields[i].key : i \in has} |->
                    getDefault(s.fields[at(k)].schema)])
    ELSE IF s.default.t = "producer" THEN s.default.v
    ELSE s.default

\* ref(path): a reference to a sibling (or a descendant of a sibling) by its
\* path, or, with context set, to an entry of the context of the call
ref(path, context) == [type |-> "ref", path |-> path, context |-> context]
isRef(s) == s.type = "ref"

\* the value at a path inside a value, undefined where the path leads nowhere
RECURSIVE getIn(_, _)
getIn(v, path) ==
    IF path = <<>> THEN v
    ELSE IF v.t = "object" /\ Head(path) \in DOMAIN v.v
         THEN getIn(v.v[Head(path)], Tail(path))
         ELSE Undefined

\* a reference read against the parent object built so far, or the context
getValue(r, parent, context) ==
    IF r.context THEN getIn(context, r.path) ELSE getIn(parent, r.path)

\* one condition applied to the schema base: the builder's then when every
\* key holds the value of is, its otherwise when not
Build(cond, base, parent, context) ==
    LET hit == \A n \in DOMAIN cond.keys :
                   getValue(cond.keys[n], parent, context) = cond.builder.is
    IN  Apply(IF hit THEN cond.builder.then ELSE cond.builder.otherwise, base)

RECURSIVE ResolveFrom(_, _, _, _)
ResolveFrom(conds, base, parent, context) ==
    IF conds = <<>> THEN base
    ELSE ResolveFrom(Tail(conds), Build(Head(conds), base, parent, context),
                     parent, context)

\* a mutant of resolve: every builder is given the schema as declared, the
\* result is what the last one returns
resolveEachFromDeclared(s, parent, context) ==
    IF isRef(s) \/ s.conditions = <<>> THEN s
    ELSE Build(s.conditions[Len(s.conditions)], [s EXCEPT !.conditions = <<>>],
               parent, context)

\* the effective schema of s for a parent value and a context: the
\* conditions applied in the order they were registered, each to the schema
\* the one before it made
resolve(s, parent, context) ==
    IF isRef(s) THEN s
    ELSE ResolveFrom(s.conditions, [s EXCEPT !.conditions = <<>>], parent, context)

\* the declared siblings a field must be processed after: the one its
\* reference names and those the keys of its conditions name, unless the
\* edge <<field, sibling>> is among the excluded
Keys(fields) == {fields[i].key : i \in DOMAIN fields}
Deps(fields, i, excluded) ==
    LET s == fields[i].schema
        refs == IF isRef(s) THEN {s}
                ELSE UNION {Range(s.conditions[n].keys) : n \in DOMAIN s.conditions}
    IN  {k \in {Head(r.path) : r \in {q \in refs : ~q.context}} \cap Keys(fields) :
           <<fields[i].key, k>> \notin excluded}

\* the fields in the order they are processed: at each step the first
\* declared field that waits for no unprocessed sibling; the result is shorter
\* than fields when the references form a cycle
RECURSIVE SortFrom(_, _, _)
SortFrom(fields, done, excluded) ==
    LET left == DOMAIN fields \ Range(done)
        seen == {fields[done[n]].key : n \in DOMAIN done}
        ready == {i \in left : Deps(fields, i, excluded) \subseteq seen}
    IN  IF ready = {} THEN done
        ELSE SortFrom(fields, Append(done, CHOOSE i \in ready :
                                             \A j \in ready : i <= j),
                      excluded)

\* a mutant of sortFields: the fields are processed as declared
sortFieldsAsDeclared(fields, excluded) == [i \in DOMAIN fields |-> i]

sortFields(fields, excluded) == SortFrom(fields, <<>>, excluded)

\* a mutant of Cyclic: no declaration is found cyclic
CyclicNever(fields, excluded) == FALSE

\* the references of the fields, the excluded edges aside, form a cycle
Cyclic(fields, excluded) == Len(SortFrom(fields, <<>>, excluded)) < Len(fields)

\* the parent object with the value of one more key
With(out, k, val) == [j \in DOMAIN out \cup {k} |-> IF j = k THEN val ELSE out[j]]

\* s.cast(v): the conditions resolved, then the transforms, then the default
\* when the result is undefined, then the fields of an object, one after
\* another in the order of sortFields, and the elements of an array
RECURSIVE Cast(_, _, _)
RECURSIVE CastChildren(_, _, _)
RECURSIVE CastField(_, _, _, _, _)
RECURSIVE CastFields(_, _, _, _, _)

\* field i of the fields is cast from the object v into the parent out; a
\* reference takes its value from out as it stands
CastField(fields, i, v, out, context) ==
    LET k == fields[i].key
        s == fields[i].schema
        in == IF k \in DOMAIN v THEN v[k] ELSE Undefined
        val == IF isRef(s) THEN getValue(s, Obj(out), context)
               ELSE Cast(resolve(s, Obj(out), context), in, context)
    IN  IF val # Undefined THEN With(out, k, val)
        ELSE IF k \in DOMAIN v THEN With(out, k, in)
        ELSE out

CastFields(fields, order, v, out, context) ==
    IF order = <<>> THEN out
    ELSE CastFields(fields, Tail(order), v,
                    CastField(fields, Head(order), v, out, context), context)

\* the keys of the value that the schema does not declare stay as they are
Undeclared(fields, v) == [k \in DOMAIN v \ Keys(fields) |-> v[k]]

\* the value own of the node s with its fields or elements cast
CastChildren(s, own, context) ==
    CASE s.type = "object" /\ own.t = "object" ->
           Obj(CastFields(s.fields, sortFields(s.fields, s.noSortEdges), own.v,
                          Undeclared(s.fields, own.v), context))
      [] s.type = "array" /\ own.t = "array" /\ s.innerType # <<>> ->
           Arr([i \in DOMAIN own.v |-> Cast(s.innerType[1], own.v[i], context)])
      [] OTHER -> own

\* a mutant of Substitute: null is taken for a missing value as well
SubstituteForNull(s, piped) ==
    IF piped \in {Undefined, Null} THEN getDefault(s) ELSE piped

\* the default stands in for the value the transforms ended on when that
\* value is undefined
Substitute(s, piped) == IF piped = Undefined THEN getDefault(s) ELSE piped

Cast(schema, v, context) ==
    LET s == resolve(schema, Undefined, context)
        piped == RunTransforms(s.transforms, v, v)
    IN  CastChildren(s, Substitute(s, piped), context)

(***************************************************************************)
(* Errors.                                                                 *)
(***************************************************************************)
\* the message of a failed test, its template interpolated with the path
\* and the params of the test
Message(t, path) ==
    LET at == IF path = "" THEN "this" ELSE path
    IN  CASE t.kind = "min" -> at \o " must be greater than or equal to " \o ToString(t.param)
          [] t.kind = "max" -> at \o " must be less than or equal to " \o ToString(t.param)
          [] OTHER -> at \o " is invalid: " \o t.name

\* ValidationError(errors, value, path): a leaf error has no inner errors
ValidationError(errors, value, path, type, inner) ==
    [name |-> "ValidationError", errors |-> errors, value |-> value,
     path |-> path, type |-> type, inner |-> inner]

\* the error validateSync throws on a test that returns a promise: an Error
\* that is no ValidationError
AsyncTestError(t) == [name |-> "Error", type |-> t.name]

(***************************************************************************)
(* The validation driver.                                                  *)
(***************************************************************************)
\* isType: the value is of the type of the node; null is of the type of a
\* nullable node only
TypeCheck(s, v) ==
    CASE v = Null -> s.nullable
      [] s.type = "mixed" -> v.t # "NaN"
      [] OTHER -> v.t = s.type

\* a mutant of PresenceError: absence and null are left to the tests
PresenceErrorTypeOnly(s, v) ==
    CASE v \in {Undefined, Null} -> ""
      [] OTHER -> IF TypeCheck(s, v) THEN "" ELSE "typeError"

\* the check that runs before the tests of a node: "" when the value may be
\* tested, or the kind of the single error that ends the node's validation
PresenceError(s, v) ==
    CASE v = Undefined -> IF s.optional THEN "" ELSE "required"
      [] v = Null -> IF s.nullable THEN "" ELSE "nullable"
      [] OTHER -> IF TypeCheck(s, v) THEN "" ELSE "typeError"

\* the built-in test that reports a failed presence or type check
PresenceTest(kind) == MkTest(kind, TRUE, "fail", 0, FALSE, 0)

\* the path of a field of the object at path parent, and of an element of the
\* array at path parent (indices count from 0)
JoinKeyAlwaysDot(parent, key) == parent \o "." \o key

JoinKey(parent, key) == IF parent = "" THEN key ELSE parent \o "." \o key

JoinIndexNoBrackets(parent, i) == JoinKey(parent, ToString(i))

JoinIndex(parent, i) == parent \o "[" \o ToString(i) \o "]"

\* one level of the way from the root to a node
AtKey(k) == [key |-> k]
AtIndex(i) == [index |-> i]

\* a run of one test of the node at path on value v; route is the way from
\* the root to the node, one key or index per level
Task(t, v, path, route) ==
    [test |-> t, value |-> v, path |-> path, route |-> route,
     status |-> "created"]

\* the sequences of a sequence of sequences, one after another
RECURSIVE Flatten(_)
Flatten(ss) == IF ss = <<>> THEN <<>> ELSE Head(ss) \o Flatten(Tail(ss))

\* the test runs of the validation of node s on value v, in the order the
\* driver creates them: a failed presence check alone, else the subtrees of
\* the children (fields in declaration order, elements in index order), each
\* child's conditions resolved against the value of the node, and then the
\* node's own tests in registry order
RECURSIVE Visit(_, _, _, _, _, _)
Visit(s, v, path, route, recursive, context) ==
    LET own == [i \in DOMAIN s.tests |-> Task(s.tests[i], v, path, route)]
        in(k) == IF k \in DOMAIN v.v THEN v.v[k] ELSE Undefined
        kids ==
          CASE ~recursive -> <<>>
            [] s.type = "object" /\ v.t = "object" ->
                 Flatten([i \in DOMAIN s.fields |->
                            Visit(resolve(s.fields[i].schema, v, context),
                                  in(s.fields[i].key),
                                  JoinKey(path, s.fields[i].key),
                                  Append(route, AtKey(s.fields[i].key)),
                                  recursive, context)])
            [] s.type = "array" /\ v.t = "array" /\ s.innerType # <<>> ->
                 Flatten([i \in DOMAIN v.v |->
                            Visit(resolve(s.innerType[1], v, context), v.v[i],
                                  JoinIndex(path, i - 1),
                                  Append(route, AtIndex(i - 1)),
                                  recursive, context)])
            [] OTHER -> <<>>
    IN  IF PresenceError(s, v) # ""
        THEN <<Task(PresenceTest(PresenceError(s, v)), v, path, route)>>
        ELSE kids \o own

\* the error of one failed test run
LeafError(task) ==
    ValidationError(<<Message(task.test, task.path)>>, task.value, task.path,
                    task.test.name, <<>>)

\* the failures collected so far (task numbers, in the order they arrived)
\* put in reporting order, the order in which the driver created the runs
SortErrorsNone(collected, tasks) == collected

SortErrors(collected, tasks) ==
    LET in(i) == i \in Range(collected)
    IN  SelectSeq([i \in DOMAIN tasks |-> i], in)

\* a mutant of Finalize: the aggregate holds the first failure only
FinalizeFirstOnly(tasks, collected, value) ==
    LET all == SortErrors(collected, tasks)
        order == SubSeq(all, 1, IF all = <<>> THEN 0 ELSE 1)
        inner == [n \in DOMAIN order |-> LeafError(tasks[order[n]])]
    IN  IF order = <<>>
        THEN [kind |-> "resolved", value |-> value]
        ELSE [kind |-> "rejected",
              error |-> ValidationError([n \in DOMAIN inner |-> inner[n].errors[1]],
                                        value, "", "", inner)]

\* the result of a call all of whose test runs have settled: the value, or
\* one ValidationError holding every collected failure
Finalize(tasks, collected, value) ==
    LET order == SortErrors(collected, tasks)
        inner == [n \in DOMAIN order |-> LeafError(tasks[order[n]])]
    IN  IF order = <<>>
        THEN [kind |-> "resolved", value |-> value]
        ELSE [kind |-> "rejected",
              error |-> ValidationError([n \in DOMAIN inner |-> inner[n].errors[1]],
                                        value, "", "", inner)]

\* the options validate is called with; sync tells validateSync from
\* validate, context is what the keys with a $ are read from
Contexts == {Undefined, Obj([other |-> Num(4)])}
Options == [abortEarly : BOOLEAN, recursive : BOOLEAN, strict : BOOLEAN,
            sync : BOOLEAN, context : Contexts]

\* a call in progress: its test runs, the failures collected, its result
Pending == [kind |-> "pending"]
Running(tasks) == {i \in DOMAIN tasks : tasks[i].status = "running"}

\* whether a failure ends the call at once
StopsAtFailureNever(o) == FALSE

StopsAtFailureAlways(o) == TRUE

StopsAtFailure(o) == o.abortEarly

\* whether validateSync gives up on test t, which returned a promise
SyncRefusesFailing(t, v) == ~TestPasses(t, v)

SyncRefuses(t, v) == TRUE

\* the driver starts the runs from number i on, one after another: a
\* synchronous test answers at once, an asynchronous one is left running
\* (validateSync throws on it); the first failure ends an abortEarly call
RECURSIVE Launch(_, _, _)
Launch(c, i, o) ==
    IF i > Len(c.tasks) \/ c.outcome # Pending THEN c
    ELSE LET k == c.tasks[i]
             ok == TestPasses(k.test, k.value)
             set(st) == [c.tasks EXCEPT ![i].status = st]
             failed == [c EXCEPT !.tasks = set("failed"),
                                 !.collected = Append(@, i)]
         IN  IF k.test.async /\ o.sync /\ SyncRefuses(k.test, k.value)
             THEN [c EXCEPT !.tasks = set("refused"),
                            !.outcome = [kind |-> "threw",
                                         error |-> AsyncTestError(k.test)]]
             ELSE IF k.test.async /\ ~o.sync
             THEN Launch([c EXCEPT !.tasks = set("running")], i + 1, o)
             ELSE IF ok
             THEN Launch([c EXCEPT !.tasks = set("passed")], i + 1, o)
             ELSE IF StopsAtFailure(o)
             THEN [failed EXCEPT !.outcome =
                     [kind |-> "rejected", error |-> LeafError(k)]]
             ELSE Launch(failed, i + 1, o)

\* a mutant of Join: the call settles with what has been collected so far,
\* runs that have not settled left behind
JoinWithoutWaiting(c) ==
    IF c.outcome = Pending
    THEN [c EXCEPT !.outcome = Finalize(c.tasks, c.collected, c.value)]
    ELSE c

\* the call once nothing is left running: settled with its final result
Join(c) ==
    IF c.outcome = Pending /\ Running(c.tasks) = {}
    THEN [c EXCEPT !.outcome = Finalize(c.tasks, c.collected, c.value)]
    ELSE c

\* a mutant of Parse: the tests run on the input whatever the options
ParseNever(s, v, o) == v

\* the value a validation tests and resolves with: the cast of the input,
\* or with strict the input as it is, no transform or default applied
Parse(s, v, o) == IF o.strict THEN v ELSE Cast(s, v, o.context)

\* schema.validate(value, options) up to its first suspension: cast unless
\* strict, resolve the conditions, create the test runs of the tree, start
\* them
StartCall(s, v, o) ==
    LET value == Parse(s, v, o)
        c == [tasks |-> Visit(resolve(s, Undefined, o.context), value, "", <<>>,
                              o.recursive, o.context),
              collected |-> <<>>, value |-> value, outcome |-> Pending]
    IN  Join(Launch(c, 1, o))

\* a mutant of SettleTask: a failure that arrives after the call has settled
\* rejects it again
SettleTaskRejectsAgain(c, i, o) ==
    LET k == c.tasks[i]
        ok == TestPasses(k.test, k.value)
        d == [c EXCEPT !.tasks[i].status = IF ok THEN "passed" ELSE "failed",
                       !.collected = IF ok THEN @ ELSE Append(@, i)]
    IN  CASE ~ok /\ StopsAtFailure(o) ->
               [d EXCEPT !.outcome = [kind |-> "rejected", error |-> LeafError(k)]]
          [] c.outcome # Pending -> [d EXCEPT !.collected = c.collected]
          [] OTHER -> Join(d)

\* a mutant of SettleTask: the last run to settle does not complete the call
SettleTaskNoFanIn(c, i, o) ==
    LET k == c.tasks[i]
        ok == TestPasses(k.test, k.value)
        d == [c EXCEPT !.tasks[i].status = IF ok THEN "passed" ELSE "failed",
                       !.collected = IF ok THEN @ ELSE Append(@, i)]
    IN  CASE c.outcome # Pending -> [d EXCEPT !.collected = c.collected]
          [] ~ok /\ StopsAtFailure(o) ->
               [d EXCEPT !.outcome = [kind |-> "rejected", error |-> LeafError(k)]]
          [] OTHER -> d

\* the asynchronous test of run i settles: its failure is collected and ends
\* an abortEarly call that has not settled yet; the last run to settle
\* completes the call.  A call that has settled is left as it is.
SettleTask(c, i, o) ==
    LET k == c.tasks[i]
        ok == TestPasses(k.test, k.value)
        d == [c EXCEPT !.tasks[i].status = IF ok THEN "passed" ELSE "failed",
                       !.collected = IF ok THEN @ ELSE Append(@, i)]
    IN  CASE c.outcome # Pending -> [d EXCEPT !.collected = c.collected]
          [] ~ok /\ StopsAtFailure(o) ->
               [d EXCEPT !.outcome = [kind |-> "rejected", error |-> LeafError(k)]]
          [] OTHER -> Join(d)

\* a mutant of Answer: every error makes isValid answer false
AnswerNeverThrows(outcome) ==
    CASE outcome.kind = "resolved" -> [kind |-> "returned", value |-> TRUE]
      [] outcome.kind \in {"rejected", "threw"} ->
           [kind |-> "returned", value |-> FALSE]
      [] OTHER -> outcome

\* what isValid / isValidSync make of the result of the validation: true
\* when it resolved, false when it rejected with a ValidationError, any
\* other error thrown on; nothing yet while the validation is pending
Answer(outcome) ==
    CASE outcome.kind = "resolved" -> [kind |-> "returned", value |-> TRUE]
      [] outcome.kind = "rejected" /\ outcome.error.name = "ValidationError" ->
           [kind |-> "returned", value |-> FALSE]
      [] OTHER -> outcome

\* a call made through isValid / isValidSync carries the answer next to the
\* validation it runs
Deliver(c) == [t \in DOMAIN c \cup {"answer"} |->
                 IF t = "answer" THEN Answer(c.outcome) ELSE c[t]]

(***************************************************************************)
(* State.                                                                  *)
(***************************************************************************)
VARIABLES
    nodes,    \* SpecBuild: the schema nodes constructed so far, by number
    origin,   \* SpecBuild: the node each node was cloned from (0: constructed)
    scope,    \* SpecBuild: the node inside a withMutation builder, or 0
    serial,   \* SpecBuild: the number of the next configuration call
    last,     \* SpecBuild: the last configuration call
    root,     \* the schema validate was called on
    input,    \* the value validate was called with
    opts,     \* the options validate was called with
    call,     \* the call: its test runs, collected failures, value, result
    stored,   \* SpecDefault: the default values the schema keeps, as instances
    held,     \* SpecDefault: the values getDefault and cast have returned
    made,     \* SpecSets: the oneOf / notOneOf calls made, oldest first
    flights   \* SpecReentrant: the calls made on the schema, oldest first

buildVars == <<nodes, origin, scope, serial, last>>
callVars == <<root, input, opts, call>>
instVars == <<stored, held>>
lateVars == <<made, flights>>
vars == <<nodes, origin, scope, serial, last, root, input, opts, call, stored, held,
          made, flights>>

NoInstances == [k \in {} |-> Undefined]

Idle == [tasks |-> <<>>, collected |-> <<>>, value |-> Undefined,
         outcome |-> [kind |-> "idle"]]

NoCall == [op |-> "none", recv |-> 0, ret |-> 0, before |-> Schema("mixed"),
           arg |-> 0, inScope |-> FALSE]

DefaultOptions == [abortEarly |-> TRUE, recursive |-> TRUE, strict |-> FALSE,
                   sync |-> FALSE, context |-> Undefined]

InitBuild ==
    /\ nodes = <<Schema("number")>>
    /\ origin = <<0>>
    /\ scope = 0
    /\ serial = 1
    /\ last = NoCall
    /\ root = Schema("mixed")
    /\ input = Undefined
    /\ opts = DefaultOptions
    /\ call = Idle
    /\ stored = NoInstances
    /\ held = <<>>
    /\ made = <<>>
    /\ flights = <<>>

(***************************************************************************)
(* SpecBuild: configuration calls.                                         *)
(***************************************************************************)
\* the names and test functions of the tests SpecBuild adds
TestNames == {"min", "custom"}
TestOptions(name, exclusive, uid) ==
    IF name = "min"
    THEN MkTest(name, exclusive, "min", 2, FALSE, uid)
    ELSE MkTest(name, exclusive, "neq", 1, FALSE, uid)

\* whether a configuration call on node r changes r in place instead of
\* cloning it: only inside the withMutation builder of r
MutatesAlways(r) == TRUE

Mutates(r) == scope = r

\* a configuration call on node r that makes it into new: the clone is a
\* new node of the heap and the call returns it.  A withMutation builder
\* runs to its end without other code in between, and it configures the
\* node it was given.
Configure(r, new, op, arg) ==
    /\ call = Idle
    /\ serial <= MaxCalls
    /\ r \in DOMAIN nodes
    /\ scope \in {0, r}
    /\ IF Mutates(r)
       THEN /\ nodes' = [nodes EXCEPT ![r] = new]
            /\ origin' = origin
       ELSE /\ nodes' = Append(nodes, new)
            /\ origin' = Append(origin, r)
    /\ last' = [op |-> op, recv |-> r,
                ret |-> IF Mutates(r) THEN r ELSE Len(nodes) + 1,
                before |-> nodes[r], arg |-> arg, inScope |-> (scope = r)]
    /\ serial' = serial + 1
    /\ UNCHANGED <<scope, callVars, instVars, lateVars>>

Test(r, name, exclusive) ==
    LET o == TestOptions(name, exclusive, serial)
    IN  Configure(r, test(nodes[r], o), "test", o)

Required(r) == Configure(r, required(nodes[r]), "required", 0)
Defined(r) == Configure(r, defined(nodes[r]), "defined", 0)
Transform(r) == Configure(r, transform(nodes[r], "original"), "transform", 0)
When(r) ==
    Configure(r, when(nodes[r], <<ref(<<"other">>, TRUE)>>,
                      Builder(Num(4), Change("max", 6), Same)),
              "when", 0)

\* withMutation(builder): the builder runs with the node open to changes in
\* place, and the node is sealed again when the builder returns
WithMutationBegin(r) ==
    /\ call = Idle
    /\ scope = 0
    /\ r \in DOMAIN nodes
    /\ serial <= MaxCalls
    /\ scope' = r
    /\ UNCHANGED <<nodes, origin, serial, last, callVars, instVars, lateVars>>

WithMutationEnd ==
    /\ call = Idle
    /\ scope # 0
    /\ scope' = 0
    /\ UNCHANGED <<nodes, origin, serial, last, callVars, instVars, lateVars>>

\* the values SpecBuild validates a node on
BuildValues == {Num(1)}

BuildOptions == [abortEarly |-> FALSE, recursive |-> TRUE, strict |-> FALSE,
                 sync |-> TRUE, context |-> Undefined]

\* validateSync on the node the last call returned
ValidateNode(r, v) ==
    /\ call = Idle
    /\ scope = 0
    /\ r = last.ret
    /\ r \in DOMAIN nodes
    /\ root' = nodes[r]
    /\ input' = v
    /\ opts' = BuildOptions
    /\ call' = StartCall(nodes[r], v, BuildOptions)
    /\ UNCHANGED <<buildVars, instVars, lateVars>>

NextBuild ==
    \/ \E r \in 1 .. MaxCalls, n \in TestNames, x \in BOOLEAN : Test(r, n, x)
    \/ \E r \in 1 .. MaxCalls : Required(r)
    \/ \E r \in 1 .. MaxCalls : Defined(r)
    \/ \E r \in 1 .. MaxCalls : Transform(r)
    \/ \E r \in 1 .. MaxCalls : When(r)
    \/ \E r \in 1 .. MaxCalls : WithMutationBegin(r)
    \/ WithMutationEnd
    \/ \E r \in 1 .. MaxCalls + 1, v \in BuildValues : ValidateNode(r, v)

SpecBuild == InitBuild /\ [][NextBuild]_vars

(***************************************************************************)
(* Spec: one validate or validateSync call.                                *)
(***************************************************************************)
\* number().min(2) and the array of it
NumberMin2 == test(Schema("number"), MkTest("min", TRUE, "min", 2, FALSE, 1))
ArrayOfMin2 == arrayOf(NumberMin2)

\* object({a: object({b: number().required()})})
NestedRequired ==
    object(<<Field("a", object(<<Field("b", required(Schema("number")))>>))>>)

\* number().test('is-42', ..., value => value != 42), the test function
\* returning a boolean or a promise of it
Is42 == test(Schema("number"), MkTest("is-42", FALSE, "neq", 42, FALSE, 1))
Is42Async == test(Schema("number"), MkTest("is-42", FALSE, "neq", 42, TRUE, 1))

\* an object whose fields and whose own test are checked asynchronously
AsyncFields ==
    test(object(<<
        Field("x", test(test(Schema("number"),
                             MkTest("min", TRUE, "min", 2, TRUE, 1)),
                        MkTest("max", TRUE, "max", 5, TRUE, 2))),
        Field("y", test(test(Schema("number"),
                             MkTest("min", TRUE, "min", 2, FALSE, 3)),
                        MkTest("odd", FALSE, "neq", 3, TRUE, 4)))>>),
         MkTest("whole", FALSE, "fail", 0, TRUE, 5))

\* an array whose elements are checked asynchronously
ArrayOfAsync ==
    arrayOf(test(Schema("number"), MkTest("min", TRUE, "min", 2, TRUE, 1)))

\* a field with two conditions, one on a sibling and one on the context:
\* count is at least 5 when isBig and at least 0 when not, and at most 6
\* when the context's other is 4
CountWhen ==
    object(<<
        Field("isBig", Schema("boolean")),
        Field("count",
              when(when(Schema("number"),
                        <<ref(<<"isBig">>, FALSE)>>,
                        Builder(Bool(TRUE), Change("min", 5), Change("min", 0))),
                   <<ref(<<"other">>, TRUE)>>,
                   Builder(Num(4), Change("max", 6), Same)))>>)

\* a field whose two conditions both set the exclusive minimum: the one
\* registered second has the last word
CountTwice ==
    object(<<
        Field("isBig", Schema("boolean")),
        Field("count",
              when(when(Schema("number"),
                        <<ref(<<"isBig">>, FALSE)>>,
                        Builder(Bool(TRUE), Change("min", 5), Change("min", 0))),
                   <<ref(<<"other">>, TRUE)>>,
                   Builder(Num(4), Change("min", 6), Same)))>>)

\* number().min(2).default(1)
NumberDefault1 == default(NumberMin2, Num(1))

\* number().required() with two tests that no value passes, one of them
\* asynchronous
RequiredNever ==
    required(test(test(Schema("number"),
                       MkTest("never", FALSE, "fail", 0, FALSE, 1)),
                  MkTest("never-async", FALSE, "fail", 0, TRUE, 2)))

Schemas == {NumberMin2, ArrayOfMin2, NestedRequired, Is42, Is42Async,
            AsyncFields, ArrayOfAsync, CountWhen, CountTwice, NumberDefault1,
            RequiredNever}

\* the sequences over S of at most n elements
SeqsUpTo(S, n) == UNION {[1 .. k -> S] : k \in 0 .. n}

\* the values a call is made with, by the type of the schema
Elements == {Num(1), Num(-24), Num(3), Str("2")}
Scalars == {Undefined, Null, Num(1), Num(3), Num(42), Str("3"), Str("x")}
Empty == [k \in {} |-> Undefined]
Objects ==
    {Undefined, Obj(Empty), Obj([a |-> Obj(Empty)]), Obj([a |-> Null]),
     Obj([a |-> Obj([b |-> Num(1)])]), Obj([a |-> Obj([b |-> Str("2")])])}
    \cup {Obj([x |-> vx, y |-> vy]) : vx \in {Num(1), Num(3), Num(7)},
                                     vy \in {Num(1), Num(3)}}
    \cup {Obj([y |-> Num(3)])}
    \cup {Obj([isBig |-> Bool(b), count |-> Num(n)]) :
             b \in BOOLEAN, n \in {-1, 3, 5, 7}}
InputsFor(s) ==
    CASE s.type = "array" ->
           {Undefined, Null} \cup {Arr(q) : q \in SeqsUpTo(Elements, MaxElements)}
      [] s.type = "object" -> Objects
      [] OTHER -> Scalars

Init ==
    /\ nodes = <<Schema("number")>>
    /\ origin = <<0>>
    /\ scope = 0
    /\ serial = 1
    /\ last = NoCall
    /\ root = Schema("mixed")
    /\ input = Undefined
    /\ opts = DefaultOptions
    /\ call = Idle
    /\ stored = NoInstances
    /\ held = <<>>
    /\ made = <<>>
    /\ flights = <<>>

\* schema.validate(value, options)
validate(s, v, o) ==
    /\ call = Idle
    /\ ~o.sync
    /\ root' = s
    /\ input' = v
    /\ opts' = o
    /\ call' = StartCall(s, v, o)
    /\ UNCHANGED <<buildVars, instVars, lateVars>>

\* schema.validateSync(value, options)
validateSync(s, v, o) ==
    /\ call = Idle
    /\ o.sync
    /\ root' = s
    /\ input' = v
    /\ opts' = o
    /\ call' = StartCall(s, v, o)
    /\ UNCHANGED <<buildVars, instVars, lateVars>>

\* schema.isValid(value, options)
isValid(s, v, o) ==
    /\ call = Idle
    /\ ~o.sync
    /\ root' = s
    /\ input' = v
    /\ opts' = o
    /\ call' = Deliver(StartCall(s, v, o))
    /\ UNCHANGED <<buildVars, instVars, lateVars>>

\* schema.isValidSync(value, options)
isValidSync(s, v, o) ==
    /\ call = Idle
    /\ o.sync
    /\ root' = s
    /\ input' = v
    /\ opts' = o
    /\ call' = Deliver(StartCall(s, v, o))
    /\ UNCHANGED <<buildVars, instVars, lateVars>>

\* the promise of the asynchronous test of run i settles
Settle(i) ==
    /\ i \in Running(call.tasks)
    /\ call' = IF "answer" \in DOMAIN call
               THEN Deliver(SettleTask([t \in DOMAIN call \ {"answer"} |-> call[t]],
                                       i, opts))
               ELSE SettleTask(call, i, opts)
    /\ UNCHANGED <<buildVars, instVars, root, input, opts, lateVars>>

\* the calls there are to make: none once the call has been made
Calls ==
    IF call = Idle
    THEN UNION {{[s |-> s, v |-> v, o |-> o] : v \in InputsFor(s), o \in Options} :
                  s \in Schemas}
    ELSE {}

Next ==
    \/ \E c \in Calls : validate(c.s, c.v, c.o)
    \/ \E c \in Calls : validateSync(c.s, c.v, c.o)
    \/ \E c \in Calls : isValid(c.s, c.v, c.o)
    \/ \E c \in Calls : isValidSync(c.s, c.v, c.o)
    \/ \E i \in DOMAIN call.tasks : Settle(i)

Spec == Init /\ [][Next]_vars

\* the calls all of whose asynchronous tests settle in the end: a promise
\* that can settle is not left unsettled for ever
SpecFair == Spec /\ WF_vars(\E i \in DOMAIN call.tasks : Settle(i))

(***************************************************************************)
(* SpecCast: an object schema is declared and one value is cast, field by  *)
(* field.                                                                  *)
(***************************************************************************)
CastKeys == {"baz", "foo", "x"}

\* what a field of each key may be declared as
FieldSchemas(k) ==
    CASE k = "baz" -> {ref(<<"foo", "bar">>, FALSE), ref(<<"x">>, FALSE),
                       Schema("string")}
      [] k = "foo" -> {object(<<Field("bar", Schema("string"))>>),
                       ref(<<"baz">>, FALSE)}
      [] k = "x" -> {Schema("number"), ref(<<"x">>, TRUE), ref(<<"baz">>, FALSE)}

\* the declarations: up to one field per key, in any order, every sibling
\* reference naming a declared field
Declarations ==
    LET all == {Field(k, s) : k \in CastKeys, s \in UNION {FieldSchemas(j) : j \in CastKeys}}
        ok(f) == /\ \A i \in DOMAIN f : f[i].schema \in FieldSchemas(f[i].key)
                 /\ \A i, j \in DOMAIN f : i # j => f[i].key # f[j].key
                 /\ \A i \in DOMAIN f :
                      isRef(f[i].schema) /\ ~f[i].schema.context
                          => Head(f[i].schema.path) \in Keys(f)
    IN  {f \in SeqsUpTo(all, Cardinality(CastKeys)) : f # <<>> /\ ok(f)}

CastInputs ==
    {Obj(Empty),
     Obj([foo |-> Obj([bar |-> Str("boom")])]),
     Obj([foo |-> Obj([bar |-> Num(5)]), x |-> Str("2")]),
     Obj([baz |-> Str("own"), x |-> Num(1), other |-> Num(3)])}

CastContext == Obj([x |-> Num(5)])

CyclicError == [name |-> "Error", type |-> "cyclic"]

InitCast ==
    /\ nodes = <<Schema("number")>>
    /\ origin = <<0>>
    /\ scope = 0
    /\ serial = 1
    /\ last = NoCall
    /\ root = Schema("mixed")
    /\ input = Undefined
    /\ opts = DefaultOptions
    /\ call = Idle
    /\ stored = NoInstances
    /\ held = <<>>
    /\ made = <<>>
    /\ flights = <<>>

\* the edges a declaration may exclude from the sort
NoSortEdges == SUBSET {<<"foo", "baz">>, <<"x", "baz">>}

\* object().shape(fields, noSortEdges): the schema, or an error when the
\* references are cyclic
Shape(fields, excluded) ==
    /\ root = Schema("mixed")
    /\ call = Idle
    /\ last = NoCall
    /\ last' = [NoCall EXCEPT !.op = "shape",
                              !.arg = [fields |-> fields, noSortEdges |-> excluded]]
    /\ IF Cyclic(fields, excluded)
       THEN /\ call' = [Idle EXCEPT !.outcome = [kind |-> "threw",
                                                 error |-> CyclicError]]
            /\ root' = root
       ELSE /\ root' = [object(fields) EXCEPT !.noSortEdges = excluded]
            /\ call' = call
    /\ UNCHANGED <<nodes, origin, scope, serial, input, opts, instVars, lateVars>>

\* schema.cast(v, {context}): the cast begins, no field processed yet
cast(v) ==
    /\ root.type = "object"
    /\ call = Idle
    /\ input' = v
    /\ call' = [order |-> sortFields(root.fields, root.noSortEdges), done |-> <<>>,
                out |-> Undeclared(root.fields, v.v), outcome |-> Pending]
    /\ UNCHANGED <<buildVars, instVars, root, opts, lateVars>>

\* the next field in the order is cast into the parent
CastNext ==
    /\ call.outcome = Pending
    /\ Len(call.done) < Len(call.order)
    /\ LET i == call.order[Len(call.done) + 1]
       IN  call' = [call EXCEPT
                      !.done = Append(@, i),
                      !.out = CastField(root.fields, i, input.v, @, CastContext)]
    /\ UNCHANGED <<buildVars, instVars, root, input, opts, lateVars>>

\* every field is processed: cast returns the object
Return ==
    /\ call.outcome = Pending
    /\ Len(call.done) = Len(call.order)
    /\ call' = [call EXCEPT !.outcome = [kind |-> "returned",
                                         value |-> Obj(call.out)]]
    /\ UNCHANGED <<buildVars, instVars, root, input, opts, lateVars>>

NextCast ==
    \/ \E fields \in Declarations : \E excluded \in NoSortEdges :
          Shape(fields, excluded)
    \/ \E v \in CastInputs : cast(v)
    \/ CastNext
    \/ Return

SpecCast == InitCast /\ [][NextCast]_vars

(***************************************************************************)
(* SpecDefault: the default of a schema is given out, by getDefault and by *)
(* the cast of undefined, and the caller changes what it was given.        *)
(* Containers are instances here: a container value carries the identity   *)
(* id of the array or object it is, and a change to an instance shows      *)
(* wherever that instance is held.                                         *)
(***************************************************************************)
IsContainer(x) == x.t \in {"array", "object"}

\* the value v made of new instances: the container itself is id, the
\* containers inside it are id extended by the way to them
RECURSIVE Tag(_, _)
Tag(v, id) ==
    IF IsContainer(v)
    THEN [t |-> v.t, id |-> id,
          v |-> [k \in DOMAIN v.v |->
                   Tag(v.v[k], Append(id, IF v.t = "array" THEN AtIndex(k)
                                          ELSE AtKey(k)))]]
    ELSE v

\* the value an instance holds, identities left out
RECURSIVE Content(_)
Content(x) ==
    IF IsContainer(x)
    THEN [t |-> x.t, v |-> [k \in DOMAIN x.v |-> Content(x.v[k])]]
    ELSE x

\* the instances a value is made of
RECURSIVE Ids(_)
Ids(x) ==
    IF IsContainer(x)
    THEN {x.id} \cup UNION {Ids(x.v[k]) : k \in DOMAIN x.v}
    ELSE {}

\* the caller's change to an instance: an element pushed, a key set
Marker == Num(9)
IsTouched(x) ==
    IF x.t = "array" THEN Marker \in Range(x.v) ELSE "extra" \in DOMAIN x.v
Touched(x) ==
    IF IsTouched(x) THEN x
    ELSE IF x.t = "array" THEN [x EXCEPT !.v = Append(@, Marker)]
    ELSE [x EXCEPT !.v = With(@, "extra", Marker)]

\* the value x once the instance id has been changed
RECURSIVE Mutated(_, _)
Mutated(x, id) ==
    IF ~IsContainer(x) THEN x
    ELSE IF x.id = id THEN Touched(x)
    ELSE [x EXCEPT !.v = [k \in DOMAIN x.v |-> Mutated(x.v[k], id)]]

\* a mutant of Clone: a copy of the container that shares what is inside it
CloneShallow(x, id) ==
    IF IsContainer(x) THEN [x EXCEPT !.id = id] ELSE x

\* the copy of a kept default that is given out: new instances all through
Clone(x, id) == Tag(Content(x), id)

\* the default of the node kept under key, as the value given out under the
\* identity id: the copy of a kept value, the value a producer returns, or
\* for an object with no default set the shape built of its fields' defaults
RECURSIVE Produce(_, _, _)
Produce(s, key, id) ==
    IF s.defaultSet
    THEN IF s.default.t = "producer" THEN Tag(s.default.v, id)
         ELSE Clone(stored[key], id)
    ELSE IF s.type = "object"
    THEN LET part(i) == Produce(s.fields[i].schema, s.fields[i].key,
                                Append(id, AtKey(s.fields[i].key)))
             has == {i \in DOMAIN s.fields : part(i) # Undefined}
             at(k) == CHOOSE i \in has : s.fields[i].key = k
         IN  [t |-> "object", id |-> id,
              v |-> [k \in {s.fields[i].key : i \in has} |-> part(at(k))]]
    ELSE Undefined

\* the defaults a schema keeps: its own under "", those of its fields under
\* their keys, each made of instances of its own
Kept(s) ==
    LET own == IF s.defaultSet /\ s.default.t # "producer" THEN {""} ELSE {}
        sub == {s.fields[i].key : i \in {j \in DOMAIN s.fields :
                   /\ s.fields[j].schema.defaultSet
                   /\ s.fields[j].schema.default.t # "producer"}}
        of(k) == IF k = "" THEN s
                 ELSE s.fields[CHOOSE i \in DOMAIN s.fields : s.fields[i].key = k].schema
    IN  [k \in own \cup sub |-> Tag(of(k).default, <<[kept |-> k]>>)]

\* the schemas of the defaults
DefaultSchemas ==
    {default(Schema("array"), Arr(<<>>)),
     default(Schema("array"), Arr(<<Num(1)>>)),
     object(<<Field("x", default(Schema("array"), Arr(<<>>)))>>),
     default(Schema("object"), Obj([number |-> Num(5)])),
     default(Schema("object"), Producer(Obj([number |-> Num(5)]))),
     default(Schema("object"), Obj([list |-> Arr(<<Num(1)>>)])),
     default(Schema("mixed"), Arr(<<Arr(<<>>)>>))}

InitDefault ==
    /\ nodes = <<Schema("number")>>
    /\ origin = <<0>>
    /\ scope = 0
    /\ serial = 1
    /\ last = NoCall
    /\ root = Schema("mixed")
    /\ input = Undefined
    /\ opts = DefaultOptions
    /\ call = Idle
    /\ stored = NoInstances
    /\ held = <<>>
    /\ made = <<>>
    /\ flights = <<>>

\* the schema is declared, its defaults set
Declare(s) ==
    /\ root = Schema("mixed")
    /\ held = <<>>
    /\ root' = s
    /\ stored' = Kept(s)
    /\ UNCHANGED <<buildVars, input, opts, call, held, lateVars>>

\* what a call returns is held by the caller: the value, the content it had
\* when it was returned, and how many changes had been made by then
Hold(op, x) ==
    Append(held, [op |-> op, value |-> x, returned |-> Content(x),
                  after |-> serial - 1])

\* schema.getDefault()
GetDefault ==
    /\ root # Schema("mixed")
    /\ Len(held) < MaxHeld
    /\ held' = Hold("getDefault", Produce(root, "", <<[call |-> Len(held) + 1]>>))
    /\ UNCHANGED <<buildVars, callVars, stored, lateVars>>

\* schema.cast(undefined): the default stands in for the value
CastUndefined ==
    /\ root # Schema("mixed")
    /\ Len(held) < MaxHeld
    /\ held' = Hold("cast", Produce(root, "", <<[call |-> Len(held) + 1]>>))
    /\ UNCHANGED <<buildVars, callVars, stored, lateVars>>

\* the caller changes an instance of the n-th value it holds, once each
Mutate(n) ==
    /\ n \in DOMAIN held
    /\ \E id \in Ids(held[n].value) :
         /\ Mutated(held[n].value, id) # held[n].value
         /\ held' = [m \in DOMAIN held |->
                       [held[m] EXCEPT !.value = Mutated(@, id)]]
         /\ stored' = [k \in DOMAIN stored |-> Mutated(stored[k], id)]
    /\ serial' = serial + 1
    /\ UNCHANGED <<nodes, origin, scope, last, callVars, lateVars>>

NextDefault ==
    \/ \E s \in DefaultSchemas : Declare(s)
    \/ GetDefault
    \/ CastUndefined
    \/ \E n \in DOMAIN held : Mutate(n)

SpecDefault == InitDefault /\ [][NextDefault]_vars

(***************************************************************************)
(* SpecPipe: one cast of a value, step by step: the conditions resolved,   *)
(* the transforms one at a time, the default, the children; and the cast   *)
(* of what the cast returned.                                              *)
(***************************************************************************)
\* array().ensure(): the default [] and the transform
Ensured == transform(default(Schema("array"), Arr(<<>>)), "ensure")

PipeSchemas ==
    {Schema("number"),
     Schema("string"),
     transform(Schema("string"), "reverse"),
     transform(transform(Schema("string"), "reverse"), "original"),
     transform(transform(Schema("string"), "original"), "reverse"),
     Ensured,
     arrayOf(Schema("number")),
     default(Schema("string"), Str("nothing")),
     nullable(default(Schema("string"), Str("nothing"))),
     transform(default(Schema("string"), Str("nothing")), "blank"),
     default(Schema("number"), Producer(Num(1))),
     when(default(Schema("string"), Str("nothing")), <<ref(<<"other">>, TRUE)>>,
          Builder(Num(4), Change("transform", "reverse"), Same))}

PipeInputs ==
    {Undefined, Null, Num(1), Num(12), Str("1"), Str(""), Str("dlrow olleh"),
     Arr(<<Num(1)>>), Arr(<<Str("1"), Str("x")>>)}

InitPipe ==
    /\ nodes = <<Schema("number")>>
    /\ origin = <<0>>
    /\ scope = 0
    /\ serial = 1
    /\ last = NoCall
    /\ root = Schema("mixed")
    /\ input = Undefined
    /\ opts = DefaultOptions
    /\ call = Idle
    /\ stored = NoInstances
    /\ held = <<>>
    /\ made = <<>>
    /\ flights = <<>>

\* a cast of v by s that has resolved the conditions and run no transform
\* yet; first is the cast before it, if there was one: its input and what
\* it returned
Piping(s, v, context, first) ==
    [schema |-> resolve(s, Undefined, context), pos |-> 0, cur |-> v,
     log |-> <<>>, phase |-> "transforms", first |-> first,
     outcome |-> Pending]

\* schema.cast(v, {context})
castValue(s, v, context) ==
    /\ call = Idle
    /\ root' = s
    /\ input' = v
    /\ opts' = [DefaultOptions EXCEPT !.context = context]
    /\ call' = Piping(s, v, context, <<>>)
    /\ UNCHANGED <<buildVars, instVars, lateVars>>

\* the next transform runs
TransformStep ==
    /\ call.outcome = Pending
    /\ call.phase = "transforms"
    /\ call.pos < Len(call.schema.transforms)
    /\ LET fns == call.schema.transforms
           out == RunTransforms(SubSeq(fns, 1, call.pos + 1), input, input)
       IN  call' = [call EXCEPT
                      !.pos = @ + 1,
                      !.cur = out,
                      !.log = Append(@, [fn |-> fns[call.pos + 1],
                                         given |-> call.cur, out |-> out])]
    /\ UNCHANGED <<buildVars, instVars, root, input, opts, lateVars>>

\* the transforms are through: the default stands in for undefined
DefaultStep ==
    /\ call.outcome = Pending
    /\ call.phase = "transforms"
    /\ call.pos = Len(call.schema.transforms)
    /\ call' = [call EXCEPT !.phase = "defaulted",
                            !.cur = Substitute(call.schema, call.cur)]
    /\ UNCHANGED <<buildVars, instVars, root, input, opts, lateVars>>

\* the children are cast and the cast returns
ReturnValue ==
    /\ call.outcome = Pending
    /\ call.phase = "defaulted"
    /\ call' = [call EXCEPT
                  !.phase = "returned",
                  !.outcome = [kind |-> "returned",
                               value |-> CastChildren(call.schema, call.cur,
                                                      opts.context)]]
    /\ UNCHANGED <<buildVars, instVars, root, input, opts, lateVars>>

\* schema.cast(schema.cast(v)): what the cast returned is cast again
castAgain ==
    /\ call # Idle
    /\ call.outcome.kind = "returned"
    /\ call.first = <<>>
    /\ input' = call.outcome.value
    /\ call' = Piping(root, call.outcome.value, opts.context,
                      <<input, call.outcome.value>>)
    /\ UNCHANGED <<buildVars, instVars, root, opts, lateVars>>

NextPipe ==
    \/ \E s \in PipeSchemas, v \in PipeInputs, context \in Contexts :
          castValue(s, v, context)
    \/ TransformStep
    \/ DefaultStep
    \/ ReturnValue
    \/ castAgain

SpecPipe == InitPipe /\ [][NextPipe]_vars

(***************************************************************************)
(* SpecSets: oneOf and notOneOf calls chained on a schema.                 *)
(***************************************************************************)
\* the values the calls are made with, in sets that are not empty
SetValues == {Str("jimmy"), Num(42), Num(1)}
SetArgs == SUBSET SetValues \ {{}}

InitSets ==
    /\ nodes = <<Schema("number")>>
    /\ origin = <<0>>
    /\ scope = 0
    /\ serial = 1
    /\ last = NoCall
    /\ root = Schema("mixed")
    /\ input = Undefined
    /\ opts = DefaultOptions
    /\ call = Idle
    /\ stored = NoInstances
    /\ held = <<>>
    /\ made = <<>>
    /\ flights = <<>>

\* schema = schema.oneOf(values)
OneOf(values) ==
    /\ Len(made) < MaxCalls
    /\ root' = oneOf(root, values)
    /\ made' = Append(made, [op |-> "oneOf", values |-> values])
    /\ UNCHANGED <<buildVars, input, opts, call, instVars, flights>>

\* schema = schema.notOneOf(values)
NotOneOf(values) ==
    /\ Len(made) < MaxCalls
    /\ root' = notOneOf(root, values)
    /\ made' = Append(made, [op |-> "notOneOf", values |-> values])
    /\ UNCHANGED <<buildVars, input, opts, call, instVars, flights>>

NextSets ==
    \/ \E values \in SetArgs : OneOf(values)
    \/ \E values \in SetArgs : NotOneOf(values)

SpecSets == InitSets /\ [][NextSets]_vars

(***************************************************************************)
(* SpecReentrant: validate and cast calls on one schema, the asynchronous  *)
(* tests of the validations settling in any order across the calls.        *)
(***************************************************************************)
\* number() with two asynchronous tests, at most 6 when the context's other
\* is 4
ConditionalAsync ==
    when(test(test(Schema("number"), MkTest("min", TRUE, "min", 2, TRUE, 1)),
              MkTest("not-1", FALSE, "neq", 1, TRUE, 2)),
         <<ref(<<"other">>, TRUE)>>,
         Builder(Num(4), Change("max", 6), Same))

SharedSchemas == {Is42Async, ConditionalAsync}
SharedInputs == {Num(1), Num(7), Num(42), Str("3")}
SharedOptions ==
    {[DefaultOptions EXCEPT !.abortEarly = a, !.context = c] :
       a \in BOOLEAN, c \in Contexts}

InitReentrant ==
    /\ nodes = <<Schema("number")>>
    /\ origin = <<0>>
    /\ scope = 0
    /\ serial = 1
    /\ last = NoCall
    /\ root = Schema("mixed")
    /\ input = Undefined
    /\ opts = DefaultOptions
    /\ call = Idle
    /\ stored = NoInstances
    /\ held = <<>>
    /\ made = <<>>
    /\ flights = <<>>

\* one call on the schema: what it was called with and its progress
Flight(op, v, o, c) == [op |-> op, input |-> v, opts |-> o, call |-> c]

\* a mutant of SettleFlight: the failures collected are kept on the schema,
\* every call in progress sees them
SettleFlightShared(fl, f, i) ==
    LET c == SettleTask(fl[f].call, i, fl[f].opts)
    IN  [g \in DOMAIN fl |->
           IF g = f THEN [fl[f] EXCEPT !.call = c]
           ELSE IF fl[g].call.outcome = Pending
           THEN [fl[g] EXCEPT !.call.collected = c.collected]
           ELSE fl[g]]

\* the calls after the asynchronous test of run i of call f has settled:
\* what the call has collected is its own, no other call changes
SettleFlight(fl, f, i) ==
    [fl EXCEPT ![f].call = SettleTask(@, i, fl[f].opts)]

\* the schema that the calls are going to be made on
Share(s) ==
    /\ last = NoCall
    /\ root' = s
    /\ last' = [NoCall EXCEPT !.op = "share", !.arg = s]
    /\ UNCHANGED <<nodes, origin, scope, serial, input, opts, call, instVars,
                   made, flights>>

\* schema.validate(v, o), whatever the calls before it have come to
validateShared(v, o) ==
    /\ last.op = "share"
    /\ Len(flights) < MaxFlights
    /\ flights' = Append(flights, Flight("validate", v, o, StartCall(root, v, o)))
    /\ UNCHANGED <<buildVars, callVars, instVars, made>>

\* schema.cast(v, {context}), whatever the calls before it have come to
castShared(v, context) ==
    /\ last.op = "share"
    /\ Len(flights) < MaxFlights
    /\ flights' =
         Append(flights,
                Flight("cast", v, [DefaultOptions EXCEPT !.context = context],
                       [tasks |-> <<>>, collected |-> <<>>,
                        value |-> Cast(root, v, context),
                        outcome |-> [kind |-> "returned",
                                     value |-> Cast(root, v, context)]]))
    /\ UNCHANGED <<buildVars, callVars, instVars, made>>

\* the promise of the asynchronous test of run i of call f settles
SettleShared(f, i) ==
    /\ f \in DOMAIN flights
    /\ i \in Running(flights[f].call.tasks)
    /\ flights' = SettleFlight(flights, f, i)
    /\ UNCHANGED <<buildVars, callVars, instVars, made>>

NextReentrant ==
    \/ \E s \in SharedSchemas : Share(s)
    \/ \E v \in SharedInputs, o \in SharedOptions : validateShared(v, o)
    \/ \E v \in SharedInputs, context \in Contexts : castShared(v, context)
    \/ \E f \in DOMAIN flights :
          \E i \in DOMAIN flights[f].call.tasks : SettleShared(f, i)

SpecReentrant == InitReentrant /\ [][NextReentrant]_vars

(***************************************************************************)
(* Claims about the test registry and the immutability of nodes, checked   *)
(* under SpecBuild.                                                        *)
(***************************************************************************)
\* what the last call was about
LastName == last.arg.name
LastWas == Named(last.before.tests, LastName)
LastNow == Named(nodes[last.ret].tests, LastName)
AddedExclusive == last.op = "test" /\ last.arg.exclusive
AddedStacking == last.op = "test" /\ ~last.arg.exclusive

\* isValidSync(v) on node s
Accepts(s, v) == StartCall(s, v, BuildOptions).outcome.kind = "resolved"

\* C1: adding an exclusive test named n removes every test named n that the
\* schema held, exclusive or not, and leaves exactly one active test named
\* n: the one just added.
C1_ExclusiveAddReplaces ==
    AddedExclusive =>
        /\ LastNow = <<last.arg>>
        /\ \A t \in Range(LastWas) : t \notin Range(nodes[last.ret].tests)

C1_Witness ==
    /\ AddedExclusive
    /\ Len(LastWas) >= 2
    /\ LastNow = <<last.arg>>

\* C2: adding a non-exclusive test named n to a schema that holds an
\* exclusive test named n removes the exclusive test and appends the new
\* one; the non-exclusive tests named n added later are stacked after it.
C2_NonExclusiveOverExclusive ==
    AddedStacking =>
        /\ \A t \in Range(LastNow) : ~t.exclusive
        /\ nodes[last.ret].tests[Len(nodes[last.ret].tests)] = last.arg
        /\ \A t \in Range(LastWas) : ~t.exclusive => t \in Range(LastNow)
        /\ Len(LastNow) = Cardinality({t \in Range(LastWas) : ~t.exclusive}) + 1

\* a non-exclusive test was stacked on the test that had replaced an
\* exclusive one
C2_Witness ==
    /\ AddedStacking
    /\ Len(LastNow) = 2
    /\ ~last.inScope
    /\ origin[last.recv] # 0
    /\ \E t \in Range(nodes[origin[last.recv]].tests) :
          t.name = LastName /\ t.exclusive

C4_ReceiverAsBefore ==
    (last.op # "none" /\ ~last.inScope) =>
        /\ last.ret # last.recv
        /\ nodes[last.recv] = last.before
        /\ \A v \in {Undefined, Null, Num(1), Num(3)} :
              Accepts(nodes[last.recv], v) = Accepts(last.before, v)
        /\ last.op \in {"required", "defined"} => ~Accepts(nodes[last.ret], Undefined)

C4_NodesKept ==
    scope = 0 => \A i \in DOMAIN nodes : i \in DOMAIN nodes' /\ nodes'[i] = nodes[i]

C4_Immutability == [] C4_ReceiverAsBefore /\ [][C4_NodesKept]_vars

\* a = number(); b = a.required(): a still accepts undefined, b rejects it
C4_Witness ==
    /\ last.op = "required"
    /\ ~last.inScope
    /\ Accepts(nodes[last.recv], Undefined)
    /\ ~Accepts(nodes[last.ret], Undefined)

(***************************************************************************)
(* Claims about the validation driver, checked under Spec.                 *)
(***************************************************************************)
Started == call # Idle
Settled == call.outcome.kind \in {"resolved", "rejected", "threw"}
Rejected == call.outcome.kind = "rejected"
Failed == {i \in DOMAIN call.tasks : call.tasks[i].status = "failed"}

\* the leaf failures of the tree of s on value v at path: the failed presence
\* check of a node, or else its failing tests and the leaf failures of its
\* children, each child taken as its conditions make it for the value of
\* the node.  Each is told by its path and the uid of its test.
RECURSIVE LeafFailures(_, _, _)
LeafFailures(s, v, path) ==
    LET in(k) == IF k \in DOMAIN v.v THEN v.v[k] ELSE Undefined
    IN  IF PresenceError(s, v) # ""
        THEN {[path |-> path, type |-> PresenceError(s, v), uid |-> 0]}
        ELSE {[path |-> path, type |-> t.name, uid |-> t.uid] :
                t \in {u \in Range(s.tests) : ~TestPasses(u, v)}}
             \cup (CASE s.type = "object" /\ v.t = "object" ->
                         UNION {LeafFailures(resolve(f.schema, v, opts.context),
                                             in(f.key),
                                             IF path = "" THEN f.key
                                             ELSE path \o "." \o f.key) :
                                  f \in Range(s.fields)}
                     [] s.type = "array" /\ v.t = "array" /\ s.innerType # <<>> ->
                         UNION {LeafFailures(resolve(s.innerType[1], v, opts.context),
                                             v.v[i],
                                             path \o "[" \o ToString(i - 1) \o "]") :
                                  i \in DOMAIN v.v}
                     [] OTHER -> {})

Effective == resolve(root, Undefined, opts.context)
Expected == LeafFailures(Effective, call.value, "")
Inner == call.outcome.error.inner

\* C5: with abortEarly=false and recursive=true the aggregate error of a
\* rejected validate has exactly one inner entry per leaf failure of the
\* tree, each with the full path of its node.
C5_AggregateHoldsEveryLeafFailure ==
    (Started /\ ~opts.abortEarly /\ opts.recursive /\ call.outcome.kind # "threw") =>
        /\ Settled => (Rejected <=> Expected # {})
        /\ Rejected =>
              /\ Len(Inner) = Cardinality(Expected)
              /\ {[path |-> e.path, type |-> e.type] : e \in Range(Inner)}
                   = {[path |-> f.path, type |-> f.type] : f \in Expected}
              /\ \A f \in Expected :
                    Cardinality({n \in DOMAIN Inner :
                                   Inner[n].path = f.path /\ Inner[n].type = f.type})
                    = Cardinality({g \in Expected :
                                   g.path = f.path /\ g.type = f.type})
              /\ Len(call.outcome.error.errors) = Len(Inner)

\* array().of(number().min(2)) validating [1, -24]: two leaf errors, at
\* paths [0] and [1]
C5_Witness ==
    /\ root = ArrayOfMin2
    /\ input = Arr(<<Num(1), Num(-24)>>)
    /\ ~opts.abortEarly /\ opts.recursive
    /\ Rejected
    /\ Len(Inner) = 2
    /\ Inner[1].path = "[0]" /\ Inner[2].path = "[1]"

\* C6: with abortEarly=true validate rejects at the first failing test with
\* that single error, however many tests of the tree would fail.
C6_AbortEarlyRejectsWithOne ==
    (Started /\ opts.abortEarly) =>
        /\ call.outcome.kind # "threw" => (Rejected <=> Failed # {} /\ call.collected # <<>>)
        /\ Rejected =>
              /\ Len(call.collected) = 1
              /\ call.outcome.error = LeafError(call.tasks[call.collected[1]])
              /\ call.outcome.error.inner = <<>>
              /\ Len(call.outcome.error.errors) = 1
              /\ \E f \in Expected :
                    f.path = call.outcome.error.path /\ f.type = call.outcome.error.type

C6_Witness ==
    /\ opts.abortEarly /\ opts.recursive
    /\ Rejected
    /\ Cardinality(Expected) >= 3
    /\ Cardinality({f.path : f \in Expected}) >= 2

\* the first level of the way to the node of run i: the field or element of
\* the root whose subtree the run belongs to
Subtree(i) == IF call.tasks[i].route = <<>> THEN <<>> ELSE <<call.tasks[i].route[1]>>

\* C7: with abortEarly=false a failure in one field or element is kept as a
\* value: the call stays pending while any run is unsettled, every run of
\* every sibling subtree is started and completes, and each failure is part
\* of the aggregate, whatever the order in which the runs settle.
C7_SiblingsRunToCompletion ==
    (Started /\ ~opts.abortEarly /\ call.outcome.kind # "threw") =>
        /\ \A i \in DOMAIN call.tasks :
              call.tasks[i].status \in {"running", "passed", "failed"}
        /\ Running(call.tasks) # {} => call.outcome = Pending
        /\ Range(call.collected) = Failed
        /\ Settled =>
              /\ Running(call.tasks) = {}
              /\ \A i \in Failed : \E n \in DOMAIN Inner :
                    Inner[n] = LeafError(call.tasks[i])
              /\ Failed # {} => Len(Inner) = Cardinality(Failed)

\* the failure of a later sibling arrived first, and the earlier sibling
\* still ran and failed
C7_Witness ==
    /\ ~opts.abortEarly
    /\ Rejected
    /\ \E m, n \in DOMAIN call.collected :
          /\ m < n
          /\ call.collected[m] > call.collected[n]
          /\ call.tasks[call.collected[m]].test.async
          /\ call.tasks[call.collected[n]].test.async
          /\ Subtree(call.collected[m]) # Subtree(call.collected[n])

\* the path spelt by a way from the root: keys after a dot (none in front of
\* the first), indices in brackets
RECURSIVE Spell(_)
Spell(route) ==
    IF route = <<>> THEN ""
    ELSE LET at == route[Len(route)]
             up == Spell(SubSeq(route, 1, Len(route) - 1))
         IN  IF "key" \in DOMAIN at
             THEN (IF up = "" THEN at.key ELSE up \o "." \o at.key)
             ELSE up \o "[" \o ToString(at.index) \o "]"

\* the errors a settled call reports: the single error, or the inner ones
Reported ==
    IF ~Rejected THEN {}
    ELSE IF Inner = <<>> THEN {call.outcome.error} ELSE Range(Inner)

\* C8: the path of a failure at any depth is the path of the parent with
\* .key added for a field and [index] for an element; the path of the root
\* is the empty string.
C8_PathComposition ==
    /\ \A i \in DOMAIN call.tasks :
          /\ call.tasks[i].path = Spell(call.tasks[i].route)
          /\ call.tasks[i].route = <<>> <=> call.tasks[i].path = ""
    /\ \A e \in Reported : \E i \in Failed :
          e = LeafError(call.tasks[i]) /\ e.path = Spell(call.tasks[i].route)
    /\ (Rejected /\ Inner # <<>>) => call.outcome.error.path = ""
    /\ (root = NestedRequired /\ input = Obj([a |-> Obj(Empty)]) /\ Rejected)
          => \E e \in Reported : e.path = "a.b"
    /\ (root = ArrayOfMin2 /\ input = Arr(<<Num(3), Num(1)>>) /\ Rejected)
          => \E e \in Reported : e.path = "[1]"

\* object({a: object({b: number().required()})}) validating {a: {}}
C8_Witness ==
    /\ root = NestedRequired
    /\ input = Obj([a |-> Obj(Empty)])
    /\ ~opts.abortEarly
    /\ Rejected
    /\ \E n \in DOMAIN Inner : Inner[n].path = "a.b"

\* whether a node of the tree has a test that returns a promise
RECURSIVE HasAsyncTest(_)
HasAsyncTest(s) ==
    \/ \E t \in Range(s.tests) : t.async
    \/ \E f \in Range(s.fields) : HasAsyncTest(f.schema)
    \/ \E e \in Range(s.innerType) : HasAsyncTest(e)

\* validateSync comes to run i, whose test returns a promise: every run
\* before it passed, or failures do not end the call
Encounters(i) ==
    /\ call.tasks[i].test.async
    /\ opts.abortEarly =>
          \A j \in 1 .. i - 1 : TestPasses(call.tasks[j].test, call.tasks[j].value)

\* C9: validateSync throws an error that is no ValidationError when it
\* comes to a test that returns a promise, whether the test would pass or
\* not; with no asynchronous test configured it returns the value or throws
\* a ValidationError.
C9_SyncRefusesAsyncTests ==
    (Started /\ opts.sync) =>
        /\ Settled
        /\ (\E i \in DOMAIN call.tasks : Encounters(i)) =>
              /\ call.outcome.kind = "threw"
              /\ call.outcome.error.name # "ValidationError"
        /\ ~HasAsyncTest(root) =>
              /\ call.outcome.kind \in {"resolved", "rejected"}
              /\ Rejected => call.outcome.error.name = "ValidationError"
              /\ call.outcome.kind = "resolved" => call.outcome.value = call.value

\* validateSync threw on an asynchronous test that would have passed
C9_Witness ==
    /\ opts.sync
    /\ call.outcome.kind = "threw"
    /\ \E i \in DOMAIN call.tasks :
          /\ call.tasks[i].status = "refused"
          /\ TestPasses(call.tasks[i].test, call.tasks[i].value)

(***************************************************************************)
(* Claims about the order in which the fields of an object are processed,  *)
(* checked under SpecCast.                                                 *)
(***************************************************************************)
Casting == call.outcome.kind \in {"pending", "returned"}
Returned == call.outcome.kind = "returned"
Processed == Range(call.done)
Position(i) == CHOOSE n \in DOMAIN call.done : call.done[n] = i

\* field i is a reference to the sibling field j or to something inside it
\* (an edge the declaration excluded from the sort is none)
References(i, j) ==
    LET s == root.fields[i].schema
    IN  /\ isRef(s) /\ ~s.context /\ Head(s.path) = root.fields[j].key
        /\ <<root.fields[i].key, root.fields[j].key>> \notin root.noSortEdges

\* every processed reference came after the field it references and holds
\* the value found there
AfterReferenced ==
    \A i \in Processed : \A j \in DOMAIN root.fields :
        References(i, j) =>
            /\ j \in Processed
            /\ Position(j) < Position(i)
            /\ LET found == getIn(Obj(call.out), root.fields[i].schema.path)
               IN  found # Undefined => call.out[root.fields[i].key] = found

\* the object of the example, declared in either order, and its value
BazFoo ==
    <<Field("baz", ref(<<"foo", "bar">>, FALSE)),
      Field("foo", object(<<Field("bar", Schema("string"))>>))>>
FooBaz == <<BazFoo[2], BazFoo[1]>>
Boom == Obj([foo |-> Obj([bar |-> Str("boom")])])
BoomCast == Obj([baz |-> Str("boom"), foo |-> Obj([bar |-> Str("boom")])])
ExampleHolds ==
    root.fields \in {BazFoo, FooBaz} /\ input = Boom /\ Returned
        => call.outcome.value = BoomCast

Edges(fields, excluded) ==
    {e \in Keys(fields) \X Keys(fields) :
        /\ e \notin excluded
        /\ \E i \in DOMAIN fields :
             /\ fields[i].key = e[1]
             /\ isRef(fields[i].schema)
             /\ ~fields[i].schema.context
             /\ Head(fields[i].schema.path) = e[2]}

\* the keys reached from the keys of S along edges, in at most n steps
RECURSIVE Reach(_, _, _)
Reach(E, S, n) ==
    IF n = 0 THEN S
    ELSE Reach(E, S \cup {e[2] : e \in {f \in E : f[1] \in S}}, n - 1)

\* some field reaches itself along the edges
HasCycle(fields, excluded) ==
    LET E == Edges(fields, excluded)
    IN  \E e \in E : e[1] \in Reach(E, {e[2]}, Len(fields))

Shaped == last.op = "shape"

\* C11: a declaration whose references form a cycle, the excluded edges
\* aside, is rejected with a configuration error when the schema is built
\* and leaves no schema behind; every other declaration is accepted; and no
\* cast runs on a schema with such a cycle.
C11_CyclesRejectedAtBuild ==
    /\ Shaped /\ HasCycle(last.arg.fields, last.arg.noSortEdges)
           => /\ call.outcome = [kind |-> "threw", error |-> CyclicError]
              /\ root.type # "object"
    /\ Shaped /\ ~HasCycle(last.arg.fields, last.arg.noSortEdges)
           => /\ root.type = "object"
              /\ root.fields = last.arg.fields
              /\ call.outcome.kind # "threw"
    /\ Casting => ~HasCycle(root.fields, root.noSortEdges)

\* a cyclic declaration was rejected although one of its edges was excluded
C11_Witness ==
    /\ Shaped
    /\ last.arg.noSortEdges # {}
    /\ HasCycle(last.arg.fields, last.arg.noSortEdges)
    /\ call.outcome.kind = "threw"

\* a declaration that is cyclic but for an excluded edge was accepted and cast
C11_WitnessSuppressed ==
    /\ Returned
    /\ HasCycle(root.fields, {})
    /\ ~HasCycle(root.fields, root.noSortEdges)

(***************************************************************************)
(* Claims about conditions, checked under Spec.                            *)
(***************************************************************************)
\* the schema the conditions of s (two at most) make of it, written out: the
\* second builder is given what the first one returned
InOrder(s, parent, context) ==
    LET base == [s EXCEPT !.conditions = <<>>]
        c == s.conditions
    IN  CASE Len(c) = 0 -> base
          [] Len(c) = 1 -> Build(c[1], base, parent, context)
          [] Len(c) = 2 -> Build(c[2], Build(c[1], base, parent, context),
                                 parent, context)

\* the tests of the runs made for the field of key k of the root
RunsOf(k) ==
    LET at(i) == call.tasks[i].route = <<AtKey(k)>>
        runs == SelectSeq([i \in DOMAIN call.tasks |-> i], at)
    IN  [n \in DOMAIN runs |-> call.tasks[runs[n]].test]

Conditional == {i \in DOMAIN root.fields : root.fields[i].schema.conditions # <<>>}
InputOf(k) == IF k \in DOMAIN call.value.v THEN call.value.v[k] ELSE Undefined
BothConditionsHit ==
    /\ opts.context # Undefined
    /\ InputOf("isBig") = Bool(TRUE)

\* C12: the tests run on a field with several conditions are those of the
\* schema got by applying every condition in registration order, each
\* builder given the schema the one before it returned; with a first
\* condition that sets a minimum of 5 and a second that sets a maximum of 6,
\* exactly the counts from 5 to 6 are accepted.
C12_ConditionsAdditive ==
    (Started /\ root.type = "object" /\ call.value.t = "object" /\ opts.recursive) =>
        /\ \A i \in Conditional :
             LET f == root.fields[i]
                 eff == InOrder(f.schema, call.value, opts.context)
             IN  PresenceError(eff, InputOf(f.key)) = ""
                     => RunsOf(f.key) = eff.tests
        /\ (root = CountWhen /\ BothConditionsHit /\ Settled /\ ~opts.abortEarly
              /\ InputOf("count").t = "number")
               => (call.outcome.kind = "resolved"
                     <=> InputOf("count").v \in 5 .. 6)

\* a count of 7 passed the minimum the first condition set and failed the
\* maximum the second one set
C12_Witness ==
    /\ root = CountWhen
    /\ Started /\ opts.recursive /\ ~opts.abortEarly
    /\ call.value.t = "object"
    /\ BothConditionsHit
    /\ \E i, j \in DOMAIN call.tasks :
         /\ call.tasks[i].test.name = "min" /\ call.tasks[i].status = "passed"
         /\ call.tasks[j].test.name = "max" /\ call.tasks[j].status = "failed"
    /\ Rejected

(***************************************************************************)
(* Claims about isValid and isValidSync, checked under Spec.               *)
(***************************************************************************)
ThroughIsValid == "answer" \in DOMAIN call

\* what validate / validateSync does by itself with the schema, the value
\* and the options of the call, as far as it gets without a test settling
Alone == StartCall(root, input, opts)

\* C13: isValid and isValidSync answer false when the validation rejects
\* with a ValidationError and true when it resolves, never raising for a
\* validation failure; any other error, such as the one validateSync throws
\* on an asynchronous test, is raised and not turned into false.
C13_IsValidNeverRaisesForFailures ==
    ThroughIsValid =>
        /\ call.outcome.kind = "resolved"
               => call.answer = [kind |-> "returned", value |-> TRUE]
        /\ call.outcome.kind = "rejected"
               => /\ call.outcome.error.name = "ValidationError"
                  /\ call.answer = [kind |-> "returned", value |-> FALSE]
        /\ call.outcome.kind = "threw"
               => /\ call.outcome.error.name # "ValidationError"
                  /\ call.answer = call.outcome
        /\ call.outcome = Pending => call.answer = Pending
        /\ Alone.outcome.kind = "resolved" => call.answer.value = TRUE
        /\ Alone.outcome.kind = "rejected" => call.answer.value = FALSE
        /\ Alone.outcome.kind = "threw" => call.answer = Alone.outcome

\* isValidSync raised the error of an asynchronous test that would have
\* failed, where validation failures of the same schema answer false
C13_Witness ==
    /\ ThroughIsValid
    /\ opts.sync
    /\ call.answer.kind = "threw"
    /\ call.answer.error.name = "Error"
    /\ \E i \in DOMAIN call.tasks :
         /\ call.tasks[i].status = "refused"
         /\ ~TestPasses(call.tasks[i].test, call.tasks[i].value)

(***************************************************************************)
(* Claims about the default, checked under SpecDefault.                    *)
(***************************************************************************)
\* the default of the schema as a value: what getDefault gives, and what the
\* cast of undefined gives
DefaultValue(op) ==
    IF op = "getDefault" THEN getDefault(root) ELSE Cast(root, Undefined, Undefined)

KeptIds == UNION {Ids(stored[k]) : k \in DOMAIN stored}

\* C14: every value getDefault or the cast of undefined returns has the
\* content of the default as it was set, whatever the caller did to the
\* values returned before; any two of them, and the value the schema keeps,
\* are made of different instances, the containers inside them included.
C14_DefaultsAreCloned ==
    \A n \in DOMAIN held :
        /\ held[n].returned = DefaultValue(held[n].op)
        /\ Ids(held[n].value) \cap KeptIds = {}
        /\ \A m \in DOMAIN held :
             m # n => Ids(held[n].value) \cap Ids(held[m].value) = {}

\* a container inside the first value was changed, and the value returned
\* after that has the default's content and none of the change
C14_Witness ==
    /\ Len(held) = 2
    /\ held[2].after > held[1].after
    /\ \E k \in DOMAIN held[1].value.v :
         /\ IsContainer(held[1].value.v[k])
         /\ IsTouched(held[1].value.v[k])
    /\ Content(held[1].value) # held[1].returned
    /\ held[2].returned = held[1].returned
    /\ Content(held[2].value) = getDefault(root)

(***************************************************************************)
(* Claims about what a validation tests, checked under Spec.               *)
(***************************************************************************)
\* the part of value v at the end of route, undefined where v has no such
\* part
RECURSIVE ValueAt(_, _)
ValueAt(v, route) ==
    IF route = <<>> THEN v
    ELSE LET h == Head(route)
         IN  CASE "key" \in DOMAIN h /\ v.t = "object" /\ h.key \in DOMAIN v.v ->
                    ValueAt(v.v[h.key], Tail(route))
               [] "index" \in DOMAIN h /\ v.t = "array" /\ h.index + 1 \in DOMAIN v.v ->
                    ValueAt(v.v[h.index + 1], Tail(route))
               [] OTHER -> Undefined

\* what the tests of the call in progress have to be run on
Tested == IF opts.strict THEN input ELSE Cast(root, input, opts.context)

\* C16: a validation that is not strict casts the input first, runs every
\* test on the result of the cast (each node's tests on its part of it) and
\* resolves with the cast value; with strict no transform and no default is
\* applied, the tests run on the input as given and the call resolves with it.
C16_CastBeforeTest ==
    call # Idle =>
        /\ \A i \in DOMAIN call.tasks :
              call.tasks[i].value = ValueAt(Tested, call.tasks[i].route)
        /\ call.outcome.kind = "resolved" => call.outcome.value = Tested

\* number().min(2) validated on "3": the test ran on 3 and the call
\* resolved with 3
C16_Witness ==
    /\ call # Idle
    /\ root = NumberMin2
    /\ input = Str("3")
    /\ ~opts.strict
    /\ \E i \in DOMAIN call.tasks :
          call.tasks[i].test.name = "min" /\ call.tasks[i].value = Num(3)
                                         /\ call.tasks[i].status = "passed"
    /\ call.outcome = [kind |-> "resolved", value |-> Num(3)]

\* the same call with strict: the type check ran on "3" and rejected it
C16_WitnessStrict ==
    /\ call # Idle
    /\ root = NumberMin2
    /\ input = Str("3")
    /\ opts.strict
    /\ call.tasks[1].value = Str("3")
    /\ call.outcome.kind = "rejected"

\* number().min(2).default(1) validated on undefined with strict: no default
\* applied, the call resolved with undefined
C16_WitnessNoDefault ==
    /\ call # Idle
    /\ root = NumberDefault1
    /\ input = Undefined
    /\ opts.strict
    /\ call.outcome = [kind |-> "resolved", value |-> Undefined]

(***************************************************************************)
(* Claims about the cast, checked under SpecPipe.                          *)
(***************************************************************************)
CastReturned == call # Idle /\ call.outcome.kind = "returned"
CastTwice == CastReturned /\ call.first # <<>>

\* C15 as stated: for every schema, when the result of a cast is of the
\* schema's type, the cast of that result is the result again.
C15_AsStated ==
    (CastTwice /\ TypeCheck(call.schema, call.first[2]))
        => call.outcome.value = call.first[2]

\* the transforms the types are constructed with or add by a method of
\* their own
BuiltIn == {"parseFloat", "toString", "ensure"}
BuiltInOnly(s) == Range(s.transforms) \subseteq BuiltIn

\* C15 as amended: for every schema with no custom transform, when the
\* result of a cast is of the schema's type, the cast of that result is the
\* result again.
C15_CastIdempotent ==
    (CastTwice /\ TypeCheck(call.schema, call.first[2]) /\ BuiltInOnly(call.schema))
        => call.outcome.value = call.first[2]

\* the first cast changed the value (1 became [1]), the second left it
C15_Witness ==
    /\ CastTwice
    /\ root = Ensured
    /\ call.first = <<Num(1), Arr(<<Num(1)>>)>>
    /\ call.outcome.value = Arr(<<Num(1)>>)


\* the value the transforms that have run so far ended on
Piped == IF call.log = <<>> THEN input ELSE call.log[Len(call.log)].out

\* the default the schema was configured with, a producer called for it
Configured(s) ==
    IF s.default.t = "producer" THEN s.default.v ELSE s.default

\* C17: the default is substituted exactly when the value is undefined after
\* the whole transform pipeline has run (a producer is invoked for it); null
\* is never replaced; nothing is substituted while transforms are still to
\* run, and the substitution is made before the cast returns the value the
\* tests are run on.
C17_DefaultSubstitution ==
    call # Idle =>
        /\ call.phase = "transforms" => call.cur = Piped
        /\ call.phase # "transforms" =>
              /\ Len(call.log) = Len(call.schema.transforms)
              /\ call.cur = IF Piped = Undefined
                            THEN Configured(call.schema) ELSE Piped
              /\ Piped = Null => call.cur = Null

\* string().default('nothing') with a transform that turns '' into
\* undefined, cast on '': the default stood in after the transform
C17_Witness ==
    /\ call # Idle
    /\ call.phase = "returned"
    /\ input = Str("")
    /\ call.log # <<>>
    /\ Piped = Undefined
    /\ call.outcome.value = Str("nothing")

\* a producer was called for the default
C17_WitnessProducer ==
    /\ call # Idle
    /\ call.phase = "returned"
    /\ call.schema.default = Producer(Num(1))
    /\ input = Undefined
    /\ call.outcome.value = Num(1)

\* null went through a schema with a default and came out null
C17_WitnessNull ==
    /\ call # Idle
    /\ call.phase = "returned"
    /\ call.schema.defaultSet
    /\ input = Null
    /\ call.outcome.value = Null


\* C18: the transforms run in the order they were declared, each given the
\* output of the one before it as the current value (the first the input)
\* and the unmodified input as originalValue; the conditions are resolved
\* before the first transform runs, so the transforms run are those of the
\* resolved schema.
C18_TransformsInOrder ==
    call # Idle =>
        /\ call.schema = resolve(root, Undefined, opts.context)
        /\ Len(call.log) = call.pos
        /\ \A n \in DOMAIN call.log :
              /\ call.log[n].fn = call.schema.transforms[n]
              /\ call.log[n].given = IF n = 1 THEN input ELSE call.log[n - 1].out
              /\ call.log[n].out =
                    ApplyTransform(call.log[n].fn, call.log[n].given, input)

\* string().transform(reverse).transform(original) cast on 'dlrow olleh':
\* reverse was given the string and original, after it, the input
C18_Witness ==
    /\ call # Idle
    /\ input = Str("dlrow olleh")
    /\ \E n \in DOMAIN call.log :
          /\ n > 1
          /\ call.log[n - 1].fn = "reverse"
          /\ call.log[n - 1].out = Str("hello world")
          /\ call.log[n].fn = "original"
          /\ call.log[n].given = Str("hello world")
          /\ call.log[n].out = input

\* a transform added by a condition ran
C18_WitnessCondition ==
    /\ call # Idle
    /\ root.conditions # <<>>
    /\ "reverse" \notin Range(root.transforms)
    /\ \E n \in DOMAIN call.log :
          call.log[n].fn = "reverse" /\ call.log[n].out # call.log[n].given


(***************************************************************************)
(* Claims about the oneOf and notOneOf sets, checked under SpecSets.       *)
(***************************************************************************)
\* the number of the most recent call that mentions v, 0 when none does
MostRecent(v) ==
    LET mentions == {n \in DOMAIN made : v \in made[n].values}
    IN  IF mentions = {} THEN 0
        ELSE CHOOSE n \in mentions : \A m \in mentions : m <= n

\* C19: a value added with oneOf is removed from the notOneOf set and the
\* other way round: after any sequence of calls no value is in both sets,
\* and each value is in the set of the most recent call that mentions it
\* (in neither when no call does).
C19_SetsExclusive ==
    /\ root.oneOf \cap root.notOneOf = {}
    /\ \A v \in SetValues :
          LET n == MostRecent(v)
          IN  /\ v \in root.oneOf <=> (n > 0 /\ made[n].op = "oneOf")
              /\ v \in root.notOneOf <=> (n > 0 /\ made[n].op = "notOneOf")

\* mixed().oneOf(['jimmy', 42]).notOneOf([42]): 42 moved over
C19_Witness ==
    /\ made = <<[op |-> "oneOf", values |-> {Str("jimmy"), Num(42)}],
                [op |-> "notOneOf", values |-> {Num(42)}]>>
    /\ root.oneOf = {Str("jimmy")}
    /\ root.notOneOf = {Num(42)}


(***************************************************************************)
(* Claims about calls sharing a schema, checked under SpecReentrant.       *)
(***************************************************************************)
\* the results a validation in progress can come to when nothing but its
\* own asynchronous tests settle, in every order
RECURSIVE Outcomes(_, _)
Outcomes(c, o) ==
    IF c.outcome # Pending THEN {c.outcome}
    ELSE UNION {Outcomes(SettleTask(c, i, o), o) : i \in Running(c.tasks)}

\* the results of a call made alone on schema s
RunAlone(s, op, v, o) ==
    IF op = "cast" THEN {[kind |-> "returned", value |-> Cast(s, v, o.context)]}
    ELSE Outcomes(StartCall(s, v, o), o)

\* C20: the schema keeps no state between calls: of any number of validate
\* and cast calls on one schema, interleaved in any way where asynchronous
\* tests settle, each comes to a result it comes to when run alone, and the
\* schema is the same after the calls as before them.
C20_Reentrant ==
    last.op = "share" =>
        /\ root = last.arg
        /\ \A f \in DOMAIN flights :
              LET c == flights[f]
              IN  c.call.outcome # Pending =>
                    c.call.outcome \in RunAlone(last.arg, c.op, c.input, c.opts)

\* two validations of one schema in progress at once, with different
\* contexts: the tests of the second settled first, and 7 was rejected by
\* the one whose context asks for at most 6 and accepted by the other
C20_Witness ==
    /\ Len(flights) = 2
    /\ root = ConditionalAsync
    /\ flights[1].input = Num(7) /\ flights[2].input = Num(7)
    /\ flights[1].opts.context = Undefined
    /\ flights[2].opts.context # Undefined
    /\ flights[1].call.outcome = Pending
    /\ Running(flights[1].call.tasks) # {}
    /\ flights[2].call.outcome.kind = "rejected"

\* both calls have settled, the first after the second
C20_WitnessBoth ==
    /\ Len(flights) = 2
    /\ root = ConditionalAsync
    /\ flights[1].input = Num(7) /\ flights[2].input = Num(1)
    /\ ~flights[1].opts.abortEarly /\ ~flights[2].opts.abortEarly
    /\ flights[1].call.outcome.kind = "resolved"
    /\ flights[2].call.outcome.kind = "rejected"
    /\ \E i \in DOMAIN flights[1].call.tasks :
          flights[1].call.tasks[i].status = "passed"


(***************************************************************************)
(* Claims about the order and the settlement of a validation, checked      *)
(* under Spec.                                                             *)
(***************************************************************************)
\* the failures that the schema and the value alone decide, in the order of
\* the description of the tree: the runs the driver creates for them whose
\* test does not pass
Described ==
    LET runs == Visit(Effective, call.value, "", <<>>, opts.recursive, opts.context)
        fails(k) == ~TestPasses(k.test, k.value)
        bad == SelectSeq(runs, fails)
    IN  [n \in DOMAIN bad |-> LeafError(bad[n])]

\* the place of the field or element a run belongs to among the children of
\* the root: the position of the field in the declaration, the index of the
\* element
Place(i) ==
    LET h == call.tasks[i].route[1]
    IN  IF "key" \in DOMAIN h
        THEN CHOOSE n \in DOMAIN Effective.fields : Effective.fields[n].key = h.key
        ELSE h.index + 1

\* the run each entry of the aggregate error reports
RunOf(n) == CHOOSE i \in DOMAIN call.tasks : LeafError(call.tasks[i]) = Inner[n]

\* C21: with abortEarly=false the entries of the aggregate error come in an
\* order that the schema and the value decide: the failures of a field
\* declared earlier, or of an element of lower index, come before those of a
\* later one, whatever the order in which the asynchronous tests settled.
C21_ReportingOrder ==
    (Started /\ ~opts.abortEarly /\ Rejected) =>
        /\ Inner = Described
        /\ \A m, n \in DOMAIN Inner :
              (m < n /\ call.tasks[RunOf(m)].route # <<>>
                     /\ call.tasks[RunOf(n)].route # <<>>)
                  => Place(RunOf(m)) <= Place(RunOf(n))

\* the failure of field y arrived before the failure of field x and is
\* reported after it
C21_Witness ==
    /\ Started /\ ~opts.abortEarly /\ Rejected
    /\ root = AsyncFields
    /\ Len(call.collected) >= 2
    /\ call.tasks[call.collected[1]].path = "y"
    /\ call.tasks[call.collected[2]].path = "x"
    /\ Inner[1].path = "x"
    /\ Inner[2].path = "y"


\* C22 as stated: while an asynchronous test of a validate call has not
\* settled, the call has neither resolved nor rejected.
C22_AsStated ==
    (Started /\ Running(call.tasks) # {}) => call.outcome = Pending

\* C22 as amended: while an asynchronous test of a validate call has not
\* settled, the call does not resolve, and it rejects only with
\* abortEarly=true, on the failure of another test; with abortEarly=false it
\* neither resolves nor rejects.
C22_NoTimeout ==
    (Started /\ Running(call.tasks) # {}) =>
        /\ call.outcome.kind \in {"pending", "rejected"}
        /\ ~opts.abortEarly => call.outcome = Pending
        /\ Rejected =>
              /\ call.collected # <<>>
              /\ call.collected[1] \notin Running(call.tasks)
              /\ call.outcome.error = LeafError(call.tasks[call.collected[1]])

\* every run but one has settled, a failure among them, and the call with
\* abortEarly=false is still pending
C22_Witness ==
    /\ Started /\ ~opts.abortEarly
    /\ Cardinality(Running(call.tasks)) = 1
    /\ Len(call.tasks) >= 3
    /\ call.collected # <<>>
    /\ call.outcome = Pending

\* with abortEarly=true the call rejected while a test was still unsettled
C22_WitnessAbort ==
    /\ Started /\ opts.abortEarly
    /\ Running(call.tasks) # {}
    /\ Rejected


\* the runs of the built-in presence tests
PresenceRuns ==
    {i \in DOMAIN call.tasks :
       call.tasks[i].test \in {PresenceTest("required"), PresenceTest("nullable")}}

\* the value at the root is absent where it must be present, or null where
\* null is not allowed
RootAbsent ==
    \/ call.value = Undefined /\ ~Effective.optional
    \/ call.value = Null /\ ~Effective.nullable

\* C23: the presence checks run first: when the value of a node is absent
\* and the node is not optional, or null and the node is not nullable, the
\* validation of the node has that one error and no other test of the node
\* contributes one, with abortEarly and without.
C23_PresenceFirst ==
    (Started /\ call.outcome.kind # "threw") =>
        /\ \A i \in PresenceRuns :
              /\ call.tasks[i].value \in {Undefined, Null}
              /\ \A j \in DOMAIN call.tasks :
                    call.tasks[j].route = call.tasks[i].route => j = i
        /\ RootAbsent =>
              /\ Len(call.tasks) = 1
              /\ PresenceRuns = {1}
              /\ Rejected
              /\ Len(call.outcome.error.errors) = 1
              /\ opts.abortEarly =>
                    call.outcome.error.type
                        = (IF call.value = Undefined THEN "required" ELSE "nullable")
              /\ ~opts.abortEarly =>
                    /\ Len(Inner) = 1
                    /\ Inner[1].type
                         = (IF call.value = Undefined THEN "required" ELSE "nullable")

\* number().required() with two tests that always fail, validated on
\* undefined without abortEarly: one error, that of the presence check
C23_Witness ==
    /\ Started /\ ~opts.abortEarly /\ ~opts.sync
    /\ root = RequiredNever
    /\ input = Undefined
    /\ Rejected
    /\ Len(Inner) = 1
    /\ Inner[1].type = "required"

\* a nested node that is required and absent
C23_WitnessNested ==
    /\ Started
    /\ root = NestedRequired
    /\ \E i \in PresenceRuns : call.tasks[i].route # <<>>


(***************************************************************************)
(* The invariant of the test registry, checked under SpecBuild.            *)
(***************************************************************************)
\* the names of the tests of a registry
NamesOf(tests) == {t.name : t \in Range(tests)}

\* C24: after any sequence of test additions, in every schema the tests of
\* one name are either all non-exclusive or a single exclusive test, an
\* exclusive test never stands next to another test of its name, and adding
\* a test named n leaves the tests of every other name as they were.
C24_RegistryInvariant ==
    /\ \A r \in DOMAIN nodes : \A n \in NamesOf(nodes[r].tests) :
          LET same == Named(nodes[r].tests, n)
          IN  \/ \A i \in DOMAIN same : ~same[i].exclusive
              \/ Len(same) = 1 /\ same[1].exclusive
    /\ last.op = "test" =>
          \A n \in NamesOf(last.before.tests) \cup NamesOf(nodes[last.ret].tests) :
             n # LastName =>
                Named(nodes[last.ret].tests, n) = Named(last.before.tests, n)

\* an exclusive test was added to a schema that held a test of that name
\* and a test of another name, which stayed
C24_Witness ==
    /\ AddedExclusive
    /\ LastWas # <<>>
    /\ \E n \in NamesOf(nodes[last.ret].tests) :
          /\ n # LastName
          /\ Len(Named(nodes[last.ret].tests, n)) >= 1
    /\ LastNow = <<last.arg>>


\* the runs that failed after the call had settled: not among the collected
LateFailures == Failed \ Range(call.collected)

\* C25: a validate call settles at most once, with a value or with one
\* error and never both: once it has resolved or rejected no later step
\* changes its result, and with abortEarly=true a test that fails after the
\* first observed failure neither changes the reported error nor rejects
\* the call a second time.
C25_SingleSettlement ==
    [][(Started /\ call.outcome # Pending) =>
          /\ call'.outcome = call.outcome
          /\ call'.collected = call.collected
          /\ DOMAIN call.outcome \in {{"kind", "value"}, {"kind", "error"}}]_vars

\* a call with abortEarly=true that rejected on one failure, another test of
\* it having failed afterwards
C25_Witness ==
    /\ Started /\ opts.abortEarly
    /\ Rejected
    /\ LateFailures # {}
    /\ call.outcome.error = LeafError(call.tasks[call.collected[1]])


(***************************************************************************)
(* Termination, checked under SpecFair.                                    *)
(***************************************************************************)
\* C26: when every asynchronous test a validate call starts settles in the
\* end, the call settles in the end, resolving or rejecting, with abortEarly
\* and without; with abortEarly=false it does not settle before every run
\* it launched has completed.
C26_Termination ==
    /\ Started ~> Settled
    /\ [](Started /\ ~opts.abortEarly /\ call.outcome.kind \in {"resolved", "rejected"}
            => Running(call.tasks) = {})

\* a call with abortEarly=false on a tree with asynchronous tests in two
\* fields has settled, every run of it completed
C26_Witness ==
    /\ Started /\ ~opts.abortEarly /\ ~opts.sync
    /\ root = AsyncFields
    /\ Settled
    /\ Cardinality({i \in DOMAIN call.tasks : call.tasks[i].test.async}) >= 3
    /\ \A i \in DOMAIN call.tasks : call.tasks[i].status \in {"passed", "failed"}


(***************************************************************************)
(* The agreement of the two abort modes, checked under Spec.               *)
(***************************************************************************)
\* the results of the call in progress made with abortEarly=false instead
Collecting ==
    RunAlone(root, "validate", input, [opts EXCEPT !.abortEarly = FALSE])

\* C27: for every schema and value a validate with abortEarly=true rejects
\* exactly when the validate with abortEarly=false rejects, and the one
\* error it reports, message and path, is one of the leaf failures that the
\* other lists in inner.
C27_AbortModesAgree ==
    (Started /\ opts.abortEarly /\ ~opts.sync /\ Settled) =>
        \A other \in Collecting :
           /\ Rejected <=> other.kind = "rejected"
           /\ Rejected =>
                 \E n \in DOMAIN other.error.inner :
                    /\ other.error.inner[n].path = call.outcome.error.path
                    /\ other.error.inner[n].errors = call.outcome.error.errors

\* the call with abortEarly=true rejected with a failure that the call with
\* abortEarly=false lists, and not in the first place
C27_Witness ==
    /\ Started /\ opts.abortEarly /\ ~opts.sync /\ Rejected
    /\ \E other \in Collecting :
          /\ other.kind = "rejected"
          /\ Len(other.error.inner) >= 2
          /\ other.error.inner[1] # call.outcome.error
          /\ \E n \in DOMAIN other.error.inner :
                other.error.inner[n] = call.outcome.error

\* both resolved
C27_WitnessResolved ==
    /\ Started /\ opts.abortEarly /\ ~opts.sync
    /\ call.outcome.kind = "resolved"
    /\ call.tasks # <<>>
    /\ \A other \in Collecting : other.kind = "resolved"

====
